---- MODULE Spec2Model ----
(***************************************************************************)
(* Model of fireplace's action-resolution / trigger system (actions.py)    *)
(* and of its selector interpreter (targeting.py).                         *)
(*                                                                         *)
(* The specifications of the module:                                       *)
(*   SelSpec          builds selector programs with the selector algebra   *)
(*                    and evaluates them with Selector.eval;               *)
(*   Spec             constructs effects, attaches trigger registrations   *)
(*                    and resolves effects against a small game;           *)
(*   PlaySpec, HealSpec, DamageSpec, DeathrattleSpec, CardSpec,            *)
(*   SummonSpec, TargetSpec, GateSpec                                      *)
(*                    resolve one family of effects each.                  *)
(***************************************************************************)
EXTENDS Integers, Sequences, FiniteSets, TLC

(***************************************************************************)
(* Bounds of the model                                                     *)
(***************************************************************************)
\* seeds of the shared random source: MaxSeed seeds reach every ordered
\* sample of a list of up to three entities
MaxSeed == 6
\* number of selector-algebra operations applied to the catalogue selectors
MaxOps == 2
\* largest factor a random selector is multiplied by
MaxMul == 2

(***************************************************************************)
(* The entities of the game                                                *)
(***************************************************************************)
None == "None"

Players == {"P1", "P2"}
Minions == {"M1", "M2", "M3"}
Cards == {"K1", "K2"}
Entities == Players \cup Minions \cup Cards

\* game.__iter__: every entity of the game, in a fixed order
GameEntities == <<"P1", "P2", "M1", "M2", "M3", "K1", "K2">>

\* entity.type
Type(e) ==
    IF e \in Players THEN "PLAYER" ELSE IF e \in Minions THEN "MINION" ELSE "SPELL"

\* entity.owner: an enchantment-like entity has an owner, the others have none
Owner(e) == IF e = "K2" THEN "M1" ELSE None

\* the board of P1 holds M1, M2 side by side, the board of P2 holds M3
BoardOf == [p \in Players |-> IF p = "P1" THEN <<"M1", "M2">> ELSE <<"M3">>]

(***************************************************************************)
(* Sequence helpers                                                        *)
(***************************************************************************)
Range(s) == {s[i] : i \in 1..Len(s)}

RemoveAt(s, i) == [j \in 1..(Len(s) - 1) |-> IF j < i THEN s[j] ELSE s[j + 1]]

Min(a, b) == IF a < b THEN a ELSE b

\* the world a selector is evaluated against: the mutable entity attributes
World(z, d, c, t) == [zone |-> z, damage |-> d, controller |-> c, target |-> t]

\* entity.adjacent_minions: the neighbours on the controller's board, while in play
AdjacentMinions(e, W) ==
    IF e \notin Minions \/ W.zone[e] # "PLAY" THEN <<>>
    ELSE LET b == SelectSeq(BoardOf[W.controller[e]], LAMBDA m : W.zone[m] = "PLAY")
             at == {i \in 1..Len(b) : b[i] = e}
         IN IF at = {} THEN <<>>
            ELSE LET i == CHOOSE k \in at : TRUE
                 IN (IF i > 1 THEN <<b[i - 1]>> ELSE <<>>)
                    \o (IF i < Len(b) THEN <<b[i + 1]>> ELSE <<>>)

(***************************************************************************)
(* Selector programs (targeting.py)                                        *)
(***************************************************************************)
\* one opcode of a program.  op is "enum" (an IntEnum member, arg names it),
\* "IsSelf", "IsOwner", "IsTarget", "_and", "_or", "_not", "MergeFilter",
\* "Merge", "Unmerge", "SelectAdjacent" or "SelectRandom" (times, fallback)
Op(o, a) == [op |-> o, arg |-> a, times |-> 0, fallback |-> None]

OpAnd == Op("_and", "")
OpOr == Op("_or", "")
OpNot == Op("_not", "")
OpMergeFilter == Op("MergeFilter", "")
OpMerge == Op("Merge", "")
OpUnmerge == Op("Unmerge", "")
SelectAdjacent == Op("SelectAdjacent", "")
SelectRandom(times) == [op |-> "SelectRandom", arg |-> "", times |-> times, fallback |-> None]

\* a selector object: its class, its program and, for a RandomSelector, the
\* program of the selector it was built from (self.selector)
Sel(cls, program, inner) == [cls |-> cls, program |-> program, inner |-> inner]

\* Selector(*args): the arguments joined by _or
RECURSIVE SelectorProgram(_)
SelectorProgram(args) ==
    IF Len(args) = 0 THEN <<>>
    ELSE IF Len(args) = 1 THEN <<Op("enum", args[1])>>
    ELSE SelectorProgram(SubSeq(args, 1, Len(args) - 1)) \o <<Op("enum", args[Len(args)]), OpOr>>

Selector(args) == Sel("Selector", SelectorProgram(args), <<>>)

\* Selector.__or__
SelOr(a, b) == Sel("Selector", a.program \o b.program \o <<OpOr>>, <<>>)

\* Selector.__add__
SelAdd(a, b) == Sel("Selector", a.program \o b.program \o <<OpAnd>>, <<>>)

\* Selector.__sub__
SelSub(a, b) == Sel("Selector", a.program \o b.program \o <<OpNot, OpAnd>>, <<>>)

SELF == Sel("SelfSelector", <<Op("IsSelf", "")>>, <<>>)
OWNER == Sel("OwnerSelector", <<Op("IsOwner", "")>>, <<>>)
TARGET == Sel("TargetSelector", <<Op("IsTarget", "")>>, <<>>)

\* AdjacentSelector(selector)
AdjacentSelector(s) ==
    Sel("AdjacentSelector",
        <<OpMergeFilter>> \o s.program \o <<OpMerge, SelectAdjacent, OpUnmerge>>, <<>>)

\* RandomSelector(selector), with the sample size and fallback of its SelectRandom
RandomWith(inner, times, fallback) ==
    Sel("RandomSelector",
        <<OpMergeFilter>> \o inner
            \o <<OpMerge, [SelectRandom(times) EXCEPT !.fallback = fallback], OpUnmerge>>,
        inner)

RANDOM(s) == RandomWith(s.program, 1, None)

\* the SelectRandom object of a RandomSelector (self.random)
RandomOf(s) == s.program[Len(s.program) - 1]

\* RandomSelector.__mul__
RandomMul(s, n) == RandomWith(s.inner, RandomOf(s).times * n, None)

\* RandomSelector.__or__: sets the fallback on the selector itself and returns it
RandomOr(s, other) == RandomWith(s.inner, RandomOf(s).times, other)

(***************************************************************************)
(* Selector.test and Selector.eval                                         *)
(*                                                                         *)
(* Program counters are 1-based here: pc names the next opcode to read,    *)
(* and "pc < len(self.program)" of the source reads pc <= Len(prog).       *)
(* An evaluation yields [err, val]: err is None or the exception raised.   *)
(***************************************************************************)
\* the test methods of the IntEnum members: Zone, CardType, Affiliation, GameTag
EnumTest(member, e, s, W) ==
    CASE member \in {"PLAY", "HAND", "DECK", "GRAVEYARD"} -> W.zone[e] = member
      [] member \in {"PLAYER", "MINION", "SPELL"} -> Type(e) = member
      [] member = "FRIENDLY" -> W.controller[e] = W.controller[s]
      [] member = "HOSTILE" -> W.controller[e] # W.controller[s]
      [] member = "DAMAGE" -> W.damage[e] > 0
      [] OTHER -> FALSE

\* type(op).test(op, entity, source) of the predicate opcodes
OpTest(op, e, s, W) ==
    CASE op.op = "IsSelf" -> e = s
      [] op.op = "IsOwner" -> e = Owner(s)
      [] op.op = "IsTarget" -> e = W.target[s]
      [] OTHER -> EnumTest(op.arg, e, s, W)

\* one opcode of the loop of Selector.test: the stack it leaves, whether the
\* loop goes on, the exception it raises
TestOp(op, stack, e, s, W) ==
    LET n == Len(stack) IN
    CASE op.op \in {"Merge", "MergeFilter"} ->
            [err |-> None, stack |-> stack, stop |-> TRUE]
      [] op.op \in {"_and", "_or"} ->
            \* Selector._and / Selector._or: two pops, one push
            IF n < 2 THEN [err |-> "IndexError", stack |-> stack, stop |-> TRUE]
            ELSE [err |-> None, stop |-> FALSE,
                  stack |-> Append(SubSeq(stack, 1, n - 2),
                                   IF op.op = "_and" THEN stack[n] /\ stack[n - 1]
                                   ELSE stack[n] \/ stack[n - 1])]
      [] op.op = "_not" ->
            IF n < 1 THEN [err |-> "IndexError", stack |-> stack, stop |-> TRUE]
            ELSE [err |-> None, stop |-> FALSE,
                  stack |-> Append(SubSeq(stack, 1, n - 1), ~stack[n])]
      [] op.op = "Unmerge" ->
            \* a class is callable: Unmerge(self, stack) raises
            [err |-> "TypeError", stack |-> stack, stop |-> TRUE]
      [] op.op \in {"SelectAdjacent", "SelectRandom"} ->
            \* a merge step has no test method
            [err |-> "AttributeError", stack |-> stack, stop |-> TRUE]
      [] OTHER ->
            [err |-> None, stop |-> FALSE, stack |-> Append(stack, OpTest(op, e, s, W))]

\* return stack[-1]: IndexError on an empty stack
TestReturn(stack, pc) ==
    IF Len(stack) = 0 THEN [err |-> "IndexError", val |-> FALSE, pc |-> pc]
    ELSE [err |-> None, val |-> stack[Len(stack)], pc |-> pc]

\* the loop of Selector.test from program counter pc with the given stack
RECURSIVE TestRun(_, _, _, _, _, _)
\* the loop after opcode pc has run with outcome t
TestStep(prog, pc, stack, t, e, s, W) ==
    IF t.err # None THEN [err |-> t.err, val |-> FALSE, pc |-> pc + 1]
    ELSE IF t.stop THEN TestReturn(stack, pc + 1)
    ELSE TestRun(prog, pc + 1, t.stack, e, s, W)

TestRun(prog, pc, stack, e, s, W) ==
    IF pc > Len(prog) THEN TestReturn(stack, pc)
    ELSE TestStep(prog, pc, stack, TestOp(prog[pc], stack, e, s, W), e, s, W)

\* Selector.test(entity, source), started at the outer program counter opc
Test(prog, opc, e, s, W) == TestRun(prog, opc, <<>>, e, s, W)

\* [e for e in entities if self.test(e, source)]: the survivors, the program
\* counter the tests left, the first exception raised
RECURSIVE Filter(_, _, _, _, _)
\* entity e tested with outcome t, the rest of the list filtered as rest
FilterJoin(e, t, rest) ==
    IF rest.err # None THEN rest
    ELSE [err |-> None, val |-> (IF t.val THEN <<e>> ELSE <<>>) \o rest.val, pc |-> t.pc]

FilterCons(prog, opc, entities, t, s, W) ==
    IF t.err # None THEN [err |-> t.err, val |-> <<>>, pc |-> t.pc]
    ELSE FilterJoin(entities[1], t, Filter(prog, opc, Tail(entities), s, W))

Filter(prog, opc, entities, s, W) ==
    IF Len(entities) = 0 THEN [err |-> None, val |-> <<>>, pc |-> opc]
    ELSE FilterCons(prog, opc, entities, Test(prog, opc, entities[1], s, W), s, W)

\* random.sample(entities, m) drawn with seed r: m distinct positions
RECURSIVE Sample(_, _, _)
Sample(entities, m, r) ==
    IF m = 0 \/ Len(entities) = 0 THEN <<>>
    ELSE LET i == (r % Len(entities)) + 1
         IN <<entities[i]>> \o Sample(RemoveAt(entities, i), m - 1, r \div Len(entities))

\* a merge that returns the whole filtered collection
SelectRandomMergeAll(op, entities, r) ==
    IF Len(entities) = 0 /\ op.fallback # None THEN <<op.fallback>> ELSE entities

\* SelectRandom.merge
SelectRandomMerge(op, entities, r) ==
    IF Len(entities) = 0 /\ op.fallback # None THEN <<op.fallback>>
    ELSE Sample(entities, Min(Len(entities), op.times), r)

\* SelectAdjacent.merge
RECURSIVE SelectAdjacentMerge(_, _)
SelectAdjacentMerge(entities, W) ==
    IF Len(entities) = 0 THEN <<>>
    ELSE AdjacentMinions(entities[1], W) \o SelectAdjacentMerge(Tail(entities), W)

\* op.merge(self, merge_input) of one opcode between Merge and Unmerge
MergeOp(op, merge_input, W, r) ==
    CASE op.op = "SelectAdjacent" ->
            [err |-> None, out |-> SelectAdjacentMerge(merge_input, W)]
      [] op.op = "SelectRandom" ->
            [err |-> None, out |-> SelectRandomMerge(op, merge_input, r)]
      [] OTHER -> [err |-> "AttributeError", out |-> <<>>]

\* the loop of Selector.eval that runs the merge steps up to Unmerge
RECURSIVE MergeLoop(_, _, _, _, _, _)
MergeStep(prog, opc, merge_input, merge_output, m, W, r) ==
    IF m.err # None THEN [err |-> m.err, out |-> merge_output, opc |-> opc + 1]
    ELSE MergeLoop(prog, opc + 1, merge_input, merge_output \o m.out, W, r)

MergeLoop(prog, opc, merge_input, merge_output, W, r) ==
    IF opc > Len(prog) THEN [err |-> None, out |-> merge_output, opc |-> opc]
    ELSE IF prog[opc].op = "Unmerge" THEN [err |-> None, out |-> merge_output, opc |-> opc + 1]
    ELSE MergeStep(prog, opc, merge_input, merge_output,
                   MergeOp(prog[opc], merge_input, W, r), W, r)

\* the loop of Selector.eval that applies the operators following Unmerge
RECURSIVE CombineLoop(_, _, _, _, _, _)
CombineLoop(prog, opc, result, merge_output, negated, combined) ==
    IF opc > Len(prog) \/ prog[IF opc > Len(prog) THEN 1 ELSE opc].op \notin {"_or", "_and", "_not"}
    THEN [result |-> result, opc |-> opc, combined |-> combined]
    ELSE LET op == prog[opc]
             result1 == CASE op.op = "_or" -> result \o merge_output
                          [] op.op = "_and" ->
                               SelectSeq(result,
                                         LAMBDA e : (e \in Range(merge_output)) # negated)
                          [] OTHER -> result
         IN CombineLoop(prog, opc + 1, result1, merge_output,
                        IF op.op = "_not" THEN ~negated ELSE negated,
                        combined \/ op.op \in {"_or", "_and"})

\* the outer loop of Selector.eval, entities nonempty
RECURSIVE EvalLoop(_, _, _, _, _, _, _)
\* the operators after Unmerge applied (c), or the merge output unioned
EvalCombined(prog, c, merge_output, entities, s, W, r) ==
    EvalLoop(prog, c.opc, IF c.combined THEN c.result ELSE c.result \o merge_output,
             entities, s, W, r)

\* the merge steps have run with outcome m
EvalMerged(prog, result, m, entities, s, W, r) ==
    IF m.err # None THEN [err |-> m.err, val |-> <<>>]
    ELSE EvalCombined(prog, CombineLoop(prog, m.opc, result, m.out, FALSE, FALSE),
                      m.out, entities, s, W, r)

\* the merge input mi has been filtered out of the original entities
EvalFiltered(prog, result, mi, entities, s, W, r) ==
    IF mi.err # None THEN [err |-> mi.err, val |-> <<>>]
    ELSE EvalMerged(prog, result, MergeLoop(prog, mi.pc, mi.val, <<>>, W, r),
                    entities, s, W, r)

\* "handle merge step", the filter of the segment starting at opc
EvalMerge(prog, opc, result, entities, s, W, r) ==
    EvalFiltered(prog, result, Filter(prog, opc, entities, s, W), entities, s, W, r)

\* a plain segment has been filtered with outcome f
EvalPlain(prog, result, f, entities, s, W, r) ==
    IF f.err # None THEN [err |-> f.err, val |-> <<>>]
    ELSE IF f.pc > Len(prog) THEN [err |-> None, val |-> result \o f.val]
    ELSE EvalMerge(prog, f.pc, result \o f.val, entities, s, W, r)

EvalLoop(prog, opc, result, entities, s, W, r) ==
    IF opc > Len(prog) THEN [err |-> None, val |-> result]
    ELSE IF prog[opc].op # "MergeFilter"
    THEN EvalPlain(prog, result, Filter(prog, opc, entities, s, W), entities, s, W, r)
    ELSE EvalMerge(prog, opc + 1, result, entities, s, W, r)

\* Selector.eval(entities, source)
SelectorEval(prog, entities, s, W, r) ==
    IF Len(entities) = 0 THEN [err |-> None, val |-> <<>>]
    ELSE EvalLoop(prog, 1, <<>>, entities, s, W, r)

\* selector.eval(entities, source) through the class of the selector:
\* SelfSelector, OwnerSelector and TargetSelector override eval
Eval(sel, entities, s, W, r) ==
    CASE sel.cls = "SelfSelector" -> [err |-> None, val |-> <<s>>]
      [] sel.cls = "OwnerSelector" ->
            [err |-> None, val |-> IF Owner(s) # None THEN <<Owner(s)>> ELSE <<>>]
      [] sel.cls = "TargetSelector" -> [err |-> None, val |-> <<W.target[s]>>]
      [] OTHER -> SelectorEval(sel.program, entities, s, W, r)

(***************************************************************************)
(* The selector catalogue                                                  *)
(***************************************************************************)
\* selector constants of the catalogue (targeting.py, module level)
MINION == Selector(<<"MINION">>)
DAMAGED == Selector(<<"DAMAGE">>)
FRIENDLY == Selector(<<"FRIENDLY">>)
IN_PLAY == Selector(<<"PLAY">>)
PLAYER == Selector(<<"PLAYER">>)
CONTROLLER == SelAdd(PLAYER, FRIENDLY)
ALL_MINIONS == SelAdd(IN_PLAY, MINION)
RANDOM_MINION == RANDOM(ALL_MINIONS)
SELF_ADJACENT == AdjacentSelector(SELF)
UNDAMAGED_MINIONS == SelSub(ALL_MINIONS, DAMAGED)

(***************************************************************************)
(* State                                                                   *)
(***************************************************************************)
VARIABLES
    selA,           \* the selector the algebra is building (left operand)
    selB,           \* the right operand
    selHist,        \* the last binary operation: its operator and both operands
    selOps,         \* number of algebra operations applied so far
    selOut,         \* the last evaluation: its input and the lists returned
    order_of_play,  \* the process-wide sequence counter
    acts,           \* every effect instance constructed so far, in creation order
    events,         \* entity._events: the trigger registrations of each entity
    zone,           \* entity.zone
    damage,         \* entity.damage
    deck,           \* player.deck, top of the deck last
    hand,           \* player.hand
    fatigue,        \* number of fatigue events of each player
    modifiers,      \* controller-scoped modifiers of each player
    queue,          \* the pending effects handed to game.queue_actions
    raised,         \* the exception that ended the run, or None
    trace,          \* what the last resolution notified, broadcast, queued
    fired,          \* every firing of a registration so far, in order
    pending,        \* the effect constructed and not yet resolved, with its source
    steps,          \* number of resolutions the driver has started
    card_target,    \* card.target: the target a card is being played on
    card_choose,    \* card.choose: the alternate mode a card is being played in
    card_chosen,    \* card.chosen: the card created for the alternate mode
    attacking,      \* character.attacking
    defending,      \* character.defending
    armor,          \* hero.armor: the damage a hero absorbs before it is hurt
    gate,           \* the Evaluator under construction, with its two branches
    deathrattles,   \* entity.deathrattles: the deathrattles of each entity, in order
    extra_deathrattles, \* player.extra_deathrattles: the modifier of each player
    cards,          \* the card instances game.card created: id, controller, zone
    pool,           \* what cards.filter returns now: the ids of the content pool
    generator,      \* _cards of the RandomCardGenerator: unset, or the cached ids
    rnd             \* the state of the shared random source

selVars == <<selA, selB, selHist, selOps, selOut>>

gameVars == <<order_of_play, acts, events, zone, damage, deck, hand, fatigue,
              modifiers, queue, raised, trace, fired, pending, steps,
              card_target, card_choose, card_chosen, attacking, defending, armor,
              gate, deathrattles, extra_deathrattles, cards, pool, generator, rnd>>

vars == <<selA, selB, selHist, selOps, selOut, order_of_play, acts, events, zone,
          damage, deck, hand, fatigue, modifiers, queue, raised, trace, fired,
          pending, steps, card_target, card_choose, card_chosen, attacking,
          defending, armor, gate, deathrattles, extra_deathrattles, cards, pool,
          generator, rnd>>

(***************************************************************************)
(* The game: entities, effect instances, registrations                     *)
(***************************************************************************)
\* entity.controller
Controller(e) == IF e \in {"P2", "M3"} THEN "P2" ELSE "P1"

\* entity.health: the damage a minion dies at
Health(e) == IF e = "M1" THEN 1 ELSE IF e = "M2" THEN 2 ELSE 5

\* if target.deathrattles: the target carries at least one deathrattle
HasDeathrattles(S, e) == Len(S.deathrattles[e]) > 0

\* the classes whose constructor is GameAction.__init__
GameActionClasses == {"Death", "Attack", "BeginTurn", "EndTurn", "Play", "Deaths"}

\* the state the handlers read and write, as one record
Cur ==
    [order_of_play |-> order_of_play, acts |-> acts, events |-> events, zone |-> zone,
     damage |-> damage, deck |-> deck, hand |-> hand, fatigue |-> fatigue,
     modifiers |-> modifiers, queue |-> queue, raised |-> raised, trace |-> trace,
     fired |-> fired, target |-> card_target, choose |-> card_choose,
     chosen |-> card_chosen,
     attacking |-> attacking, defending |-> defending, armor |-> armor,
     gate |-> gate, deathrattles |-> deathrattles,
     extra_deathrattles |-> extra_deathrattles, cards |-> cards, pool |-> pool,
     generator |-> generator, rnd |-> rnd]

\* the variables take the values of the record a handler returned
Commit(S) ==
    /\ order_of_play' = S.order_of_play
    /\ acts' = S.acts
    /\ events' = S.events
    /\ zone' = S.zone
    /\ damage' = S.damage
    /\ deck' = S.deck
    /\ hand' = S.hand
    /\ fatigue' = S.fatigue
    /\ modifiers' = S.modifiers
    /\ queue' = S.queue
    /\ raised' = S.raised
    /\ trace' = S.trace
    /\ fired' = S.fired
    /\ card_target' = S.target
    /\ card_choose' = S.choose
    /\ card_chosen' = S.chosen
    /\ attacking' = S.attacking
    /\ defending' = S.defending
    /\ armor' = S.armor
    /\ gate' = S.gate
    /\ deathrattles' = S.deathrattles
    /\ extra_deathrattles' = S.extra_deathrattles
    /\ cards' = S.cards
    /\ pool' = S.pool
    /\ generator' = S.generator
    /\ rnd' = S.rnd

\* the world selectors see in state S
WorldOf(S) ==
    World(S.zone, S.damage, [e \in Entities |-> Controller(e)], S.target)

\* character.dead
IsDead(S, e) == S.damage[e] >= Health(e)

Raise(S, exc) == [S EXCEPT !.raised = exc]

\* one line of the trace
Note(kind, cls, src, tgt, amount, ents, ids, snap) ==
    [kind |-> kind, cls |-> cls, src |-> src, tgt |-> tgt, amount |-> amount,
     ents |-> ents, ids |-> ids, snap |-> snap]

\* the game as a trace line records it
Snap(S) ==
    [zone |-> S.zone, damage |-> S.damage, deck |-> S.deck, hand |-> S.hand,
     fatigue |-> S.fatigue, events |-> S.events, target |-> S.target,
     choose |-> S.choose, attacking |-> S.attacking, defending |-> S.defending,
     armor |-> S.armor, cards |-> S.cards, pool |-> S.pool]

Log(S, note) == [S EXCEPT !.trace = Append(@, note)]

\* an entity given where a selector is expected
EntityArg(e) == Sel("Entity", <<Op("entity", e)>>, <<>>)

\* new_order_of_play(): the next value of the process-wide counter
NewOrderOfPlay(S) == S.order_of_play + 1

\* Action.__init__: stamps the instance, sets times to 1, keeps the arguments
ActionInit(S, cls, args, amount) ==
    [S EXCEPT !.order_of_play = NewOrderOfPlay(S),
              !.acts = Append(@, [cls |-> cls, order_of_play |-> NewOrderOfPlay(S),
                                  times |-> 1, args |-> args, amount |-> amount])]

\* GameAction.__init__: keeps the arguments; it does not call Action.__init__,
\* so the instance has no order_of_play and no times (0 stands for "not set")
GameActionInit(S, cls, args, amount) ==
    [S EXCEPT !.acts = Append(@, [cls |-> cls, order_of_play |-> 0,
                                  times |-> 0, args |-> args, amount |-> amount])]

\* cls(*args): construction of an effect instance of class cls
New(S, cls, args, amount) ==
    IF cls \in GameActionClasses THEN GameActionInit(S, cls, args, amount)
    ELSE ActionInit(S, cls, args, amount)

\* Action.__mul__ on instance i
ActionMul(S, i, n) ==
    IF S.acts[i].times = 0 THEN Raise(S, "AttributeError")
    ELSE [S EXCEPT !.acts[i].times = @ * n]

\* Action.on / Action.once: the EventListener of trigger t with follow-ups as
EventListener(t, as, at, z, once) ==
    [trigger |-> t, actions |-> as, at |-> at, zone |-> z, once |-> once]

\* game.queue_actions(source, actions): appended to the pending list
QueueActions(S, source, ids) ==
    LET entries == [k \in 1..Len(ids) |-> [source |-> source, action |-> ids[k]]]
    IN Log([S EXCEPT !.queue = @ \o entries],
           Note("queue", "", source, None, 0, <<>>, ids, <<>>))

\* chain(game.hands, game.entities): the cards in hand, then the other entities
ScanOrder(S) ==
    S.hand["P1"] \o S.hand["P2"]
        \o SelectSeq(GameEntities, LAMBDA e : e \notin Range(S.hand["P1"] \o S.hand["P2"]))

\* entity.ignore_events: M3 is flagged to ignore events
IgnoreEvents(S, e) == e = "M3"

\* Action.matches(source, args) of the trigger pattern: every declared
\* argument must select the payload item it is paired with
RECURSIVE Matches(_, _, _, _, _)
\* res = match.eval([arg], source) for argument k
MatchesArg(S, pattern, source, args, k, res) ==
    IF res.err # None THEN [err |-> res.err, val |-> FALSE]
    ELSE IF Len(res.val) = 0 \/ res.val[1] # args[k] THEN [err |-> None, val |-> FALSE]
    ELSE Matches(S, pattern, source, args, k + 1)

Matches(S, pattern, source, args, k) ==
    IF k > Len(args) \/ k > Len(pattern.args) THEN [err |-> None, val |-> TRUE]
    ELSE MatchesArg(S, pattern, source, args, k,
                    Eval(pattern.args[k], <<args[k]>>, source, WorldOf(S), 0))

\* the firing of registration event of entity e, as the history keeps it
Firing(mode, e, event) ==
    [trigger |-> event.trigger, entity |-> e, once |-> event.once, mode |-> mode]

\* the follow-ups of a firing joined to the pairs gather collects
Collected(mode, e, event, result) ==
    IF mode = "broadcast" THEN result
    ELSE result \o [j \in 1..Len(event.actions) |->
                       [entity |-> e, action |-> event.actions[j]]]

\* a firing that leaves every registration in place
FireKeep(S, mode, e, i, event, result) ==
    [S |-> [S EXCEPT !.fired = Append(@, Firing(mode, e, event))],
     result |-> Collected(mode, e, event, result)]

\* a matching registration fires: mode "broadcast" has queued its follow-ups,
\* mode "gather" collects them in result as (entity, effect) pairs; a
\* single-fire registration is then removed from the list it is read from
Fire(S, mode, e, i, event, result) ==
    [S |-> [S EXCEPT !.fired = Append(@, Firing(mode, e, event)),
                     !.events[e] = IF event.once THEN RemoveAt(@, i) ELSE @],
     result |-> Collected(mode, e, event, result)]

\* the registration matched with outcome m
ScanMatched(S, mode, e, i, event, result, m) ==
    IF m.err # None THEN [S |-> Raise(S, m.err), result |-> result]
    ELSE IF ~m.val THEN [S |-> S, result |-> result]
    ELSE Fire(IF mode = "broadcast" THEN QueueActions(S, e, event.actions) ELSE S,
              mode, e, i, event, result)

\* one registration of the scan of Action.broadcast / Action.gather:
\* registration i of entity e is skipped, or matched against the event
ScanEvent(S, cls, at, args, mode, e, i, event, result) ==
    IF event.zone # S.zone[e] THEN [S |-> S, result |-> result]
    ELSE IF ~(S.acts[event.trigger].cls = cls /\ event.at = at)
    THEN [S |-> S, result |-> result]
    ELSE ScanMatched(S, mode, e, i, event, result,
                     Matches(S, S.acts[event.trigger], e, args, 1))

\* the two nested loops of Action.broadcast and Action.gather over the
\* entities ents (from index k) and the registrations of ents[k] (from index
\* i).  The registration list is read through the index i, which moves on by
\* one after every registration, removed or not, as the for loop of the
\* source does.
RECURSIVE Scan(_, _, _, _, _, _, _, _, _)
ScanNext(step, cls, at, args, mode, ents, k, i) ==
    Scan(step.S, cls, at, args, mode, ents, k, i, step.result)

Scan(S, cls, at, args, mode, ents, k, i, result) ==
    IF S.raised # None \/ k > Len(ents) THEN [S |-> S, result |-> result]
    ELSE IF IgnoreEvents(S, ents[k]) \/ i > Len(S.events[ents[k]])
    THEN Scan(S, cls, at, args, mode, ents, k + 1, 1, result)
    ELSE ScanNext(ScanEvent(S, cls, at, args, mode, ents[k], i, S.events[ents[k]][i], result),
                  cls, at, args, mode, ents, k, i + 1)

\* Action.broadcast(game, at, *args) raised by an effect of class cls
Broadcast(S, cls, at, args, amount) ==
    IF S.raised # None THEN S
    ELSE Scan(Log(S, Note("broadcast:" \o at, cls, None, args[1], amount, args, <<>>,
                          Snap(S))),
              cls, at, args, "broadcast", ScanOrder(S), 1, 1, <<>>).S

\* result.sort(key = x[1].order_of_play): the name x is bound nowhere, so
\* evaluating the key raises NameError before anything is sorted
SortByOrderOfPlay(S, result) == [err |-> "NameError", val |-> result]

\* the scan of gather is over (sc), its result goes through the sort
GatherSorted(sc, sorted, cls, at, args) ==
    [S |-> Log(IF sorted.err # None THEN Raise(sc.S, sorted.err) ELSE sc.S,
               Note("gather:" \o at, cls, None, args[1], 0,
                    [j \in 1..Len(sorted.val) |-> sorted.val[j].entity],
                    [j \in 1..Len(sorted.val) |-> sorted.val[j].action],
                    [raised |-> sorted.err])),
     val |-> sorted.val]

GatherScanned(sc, cls, at, args) ==
    IF sc.S.raised # None THEN [S |-> sc.S, val |-> <<>>]
    ELSE GatherSorted(sc, SortByOrderOfPlay(sc.S, sc.result), cls, at, args)

\* Action.gather(game, at, *args): the state it leaves and the list returned
Gather(S, cls, at, args) ==
    GatherScanned(Scan(S, cls, at, args, "gather", ScanOrder(S), 1, 1, <<>>), cls, at, args)

(***************************************************************************)
(* The effects                                                             *)
(***************************************************************************)
\* target._hit(source, amount): the damage-intake rule of the target; the
\* armor of the target absorbs what it can, the rest is added to the damage
\* of the target and returned
EntityHit(S, target, amount) ==
    [S |-> [S EXCEPT !.armor[target] = @ - Min(amount, @),
                     !.damage[target] = @ + (amount - Min(amount, S.armor[target]))],
     amount |-> amount - Min(amount, S.armor[target])]

\* a Damage.do that goes by the amount of the effect, not by what the intake
\* rule returned
DamageHitNominal(h, a, source, target) ==
    IF a.amount # 0 THEN Broadcast(h.S, "Damage", "ON", <<target, a.amount, source>>, a.amount)
    ELSE h.S

\* Damage.do after the intake rule returned h
DamageHit(h, a, source, target) ==
    IF h.amount # 0 THEN Broadcast(h.S, "Damage", "ON", <<target, h.amount, source>>, h.amount)
    ELSE h.S

\* Damage.do
DamageDo(S, a, source, target) ==
    DamageHit(EntityHit(S, target, a.amount), a, source, target)

\* player.fatigue(): one fatigue event of the player
Fatigue(S, player) ==
    Log([S EXCEPT !.fatigue[player] = @ + 1],
        Note("fatigue", "", None, player, 0, <<>>, <<>>, <<>>))

\* card.draw(): the card leaves the deck of its controller for the hand
CardDraw(S, player, card) ==
    Log([S EXCEPT !.deck[player] = SelectSeq(@, LAMBDA c : c # card),
                  !.hand[player] = Append(@, card),
                  !.zone[card] = "HAND"],
        Note("draw", "", None, player, 0, <<card>>, <<>>, <<>>))

\* a draw that does nothing on an empty deck
DrawDoSilent(S, a, source, target) ==
    IF Len(S.deck[target]) = 0 THEN S
    ELSE CardDraw(S, target, S.deck[target][Len(S.deck[target])])

\* Draw.do
DrawDo(S, a, source, target) ==
    IF Len(S.deck[target]) = 0 THEN Fatigue(S, target)
    ELSE CardDraw(S, target, S.deck[target][Len(S.deck[target])])

\* the heal of amount points lands on the target
HealApply(S, target, amount) ==
    IF amount # 0
    THEN Broadcast([S EXCEPT !.damage[target] = @ - amount], "Heal", "ON", <<target>>, amount)
    ELSE S

\* a heal that is not clamped to the outstanding damage
HealDoUnclamped(S, a, source, target) ==
    IF S.modifiers[Controller(source)].outgoing_healing_adjustment
    THEN EntityHit(S, target, a.amount).S
    ELSE HealApply(S, target,
                   a.amount * (S.modifiers[Controller(source)].healing_double + 1))

\* Heal.do
HealDo(S, a, source, target) ==
    IF S.modifiers[Controller(source)].outgoing_healing_adjustment
    THEN \* "healing as damage": source.hit(target, self.amount)
         EntityHit(S, target, a.amount).S
    ELSE HealApply(S, target,
                   Min(a.amount * (S.modifiers[Controller(source)].healing_double + 1),
                       S.damage[target]))

\* a deathrattle that is queued once whatever the modifiers of the controller
DeathrattleQueueOnce(S, target, actions) == QueueActions(S, target, actions)

\* the body of the loop of Deathrattle.do: the effects of one deathrattle are
\* queued, and queued again when the controller has extra_deathrattles
DeathrattleQueue(S, target, actions) ==
    IF S.extra_deathrattles[Controller(target)]
    THEN QueueActions(QueueActions(S, target, actions), target, actions)
    ELSE QueueActions(S, target, actions)

\* for deathrattle in target.deathrattles, from deathrattle k on
RECURSIVE DeathrattleEach(_, _, _)
DeathrattleEach(S, target, k) ==
    IF k > Len(S.deathrattles[target]) THEN S
    ELSE DeathrattleEach(DeathrattleQueue(S, target, S.deathrattles[target][k]),
                         target, k + 1)

\* Deathrattle.do
DeathrattleDo(S, a, source, target) == DeathrattleEach(S, target, 1)

\* the card arguments of Summon, Give and Shuffle: the string id of a card,
\* the RandomCardGenerator, Copy(selector)
CardId(id) == [kind |-> "id", id |-> id, selector |-> SELF]
RandomCard == [kind |-> "generator", id |-> "", selector |-> SELF]
Copy(selector) == [kind |-> "copy", id |-> "", selector |-> selector]

\* RandomCardGenerator.__init__: self._cards = None
NoCards == [filtered |-> FALSE, cards |-> <<>>]

\* RandomCardGenerator.cards: the pool is filtered when _cards is None, and kept
GeneratorCards(S) ==
    IF S.generator.filtered THEN S
    ELSE [S EXCEPT !.generator = [filtered |-> TRUE, cards |-> S.pool]]

\* random.choice(seq) on the shared random source: the position chosen
Choice(S, seq) == (S.rnd % Len(seq)) + 1

\* game.card(id): a new card instance, which nobody controls yet
GameCard(S, id) ==
    Log([S EXCEPT !.cards = Append(@, [id |-> id, controller |-> None, zone |-> "INVALID"])],
        Note("card", id, None, None, 0, <<>>, <<Len(S.cards) + 1>>, Snap(S)))

\* ret.append(game.card(card)) for the ids from position k on; val collects
\* the instances
RECURSIVE CardsOf(_, _, _, _)
CardsOf(S, ids, k, val) ==
    IF k > Len(ids) THEN [S |-> S, val |-> val]
    ELSE CardsOf(GameCard(S, ids[k]), ids, k + 1, Append(val, Len(S.cards) + 1))

\* RandomCardGenerator.pick once the pool is at hand: random.choice(self.cards)
GeneratorPick(S) ==
    IF Len(S.generator.cards) = 0 THEN [S |-> Raise(S, "IndexError"), val |-> <<>>]
    ELSE CardsOf([S EXCEPT !.rnd = @ \div Len(S.generator.cards)],
                 <<S.generator.cards[Choice(S, S.generator.cards)]>>, 1, <<>>)

\* Copy.pick returned c: the ids of the entities selected
CopyPicked(S, c) ==
    IF c.err # None THEN [S |-> Raise(S, c.err), val |-> <<>>]
    ELSE CardsOf(S, c.val, 1, <<>>)

\* _eval_card(source, game, card): the state it leaves and the instances
EvalCard(S, source, card) ==
    CASE card.kind = "generator" -> GeneratorPick(GeneratorCards(S))
      [] card.kind = "copy" ->
            CopyPicked(S, Eval(card.selector, GameEntities, source, WorldOf(S), 0))
      [] OTHER -> CardsOf(S, <<card.id>>, 1, <<>>)

\* card.controller = target
SetController(S, c, target) == [S EXCEPT !.cards[c].controller = target]

\* card.zone = z, card.summon(): the zone change of a card instance
SetZone(S, c, z, target) ==
    Log([S EXCEPT !.cards[c].zone = z], Note("zone", z, None, target, 0, <<>>, <<c>>, Snap(S)))

\* the body of the loop of Give.do
GiveCard(S, target, c) == SetZone(SetController(S, c, target), c, "HAND", target)

\* the body of the loop of Shuffle.do, with target.shuffle_deck()
ShuffleCard(S, target, c) ==
    Log(SetZone(SetController(S, c, target), c, "DECK", target),
        Note("shuffle_deck", "", None, target, 0, <<>>, <<c>>, <<>>))

\* the end of the loop body of Summon.do, after the ON broadcast left state b
Summoned(b, target, c) ==
    IF b.raised # None THEN b
    ELSE Broadcast(SetZone(b, c, "PLAY", target), "Summon", "AFTER", <<target, c>>, 0)

\* the body of the loop of Summon.do
SummonCard(S, target, c) ==
    Summoned(Broadcast(SetController(S, c, target), "Summon", "ON", <<target, c>>, 0),
             target, c)

\* for card in cards, from position k on, of Give.do, Shuffle.do, Summon.do
RECURSIVE CardsDo(_, _, _, _, _)
CardsDo(S, cls, target, cs, k) ==
    IF S.raised # None \/ k > Len(cs) THEN S
    ELSE CardsDo(CASE cls = "Give" -> GiveCard(S, target, cs[k])
                   [] cls = "Shuffle" -> ShuffleCard(S, target, cs[k])
                   [] OTHER -> SummonCard(S, target, cs[k]),
                 cls, target, cs, k + 1)

\* get_args resolved the card argument with outcome ev: do(source, game, target, cards)
CardDo(ev, a, target) == CardsDo(ev.S, a.cls, target, ev.val, 1)

\* self.do(source, game, *self.get_args(source, game, target)) of a targeted effect
Do(S, a, source, target) ==
    CASE a.cls = "Damage" -> DamageDo(S, a, source, target)
      [] a.cls = "Draw" -> DrawDo(S, a, source, target)
      [] a.cls = "Heal" -> HealDo(S, a, source, target)
      [] a.cls = "Deathrattle" -> DeathrattleDo(S, a, source, target)
      [] a.cls \in {"Give", "Summon", "Shuffle"} ->
            CardDo(EvalCard(S, source, a.args[2]), a, target)
      [] OTHER -> S

\* TargetedAction.evaluate_selectors: the target set of the effect, now
EvaluateSelectors(S, a, source) ==
    LET v == a.args[1] IN
    IF v.cls = "Entity" THEN [err |-> None, val |-> <<v.program[1].arg>>]
    ELSE Eval(v, GameEntities, source, WorldOf(S), 0)

\* a loop that asks the selector again before each target and passes over
\* the targets it no longer selects
RECURSIVE ForTargetsLive(_, _, _, _, _)
ForTargetsLive(S, a, source, targets, k) ==
    IF S.raised # None \/ k > Len(targets) THEN S
    ELSE ForTargetsLive(IF targets[k] \in Range(EvaluateSelectors(S, a, source).val)
                        THEN Do(S, a, source, targets[k]) ELSE S,
                        a, source, targets, k + 1)

\* for target in targets: self.do(...)
RECURSIVE ForTargets(_, _, _, _, _)
ForTargets(S, a, source, targets, k) ==
    IF S.raised # None \/ k > Len(targets) THEN S
    ELSE ForTargets(Do(S, a, source, targets[k]), a, source, targets, k + 1)

\* game.manager.action_end(...): the effect has been applied to every
\* target of the repeat
RepeatEnd(applied, i, source, targets) ==
    IF applied.raised # None THEN applied
    ELSE Log(applied, Note("action_end", applied.acts[i].cls, source, None,
                           applied.acts[i].amount, targets, <<i>>, Snap(applied)))

\* the targets have been resolved with outcome ev: game.manager.action(...),
\* then the effect on each target
RepeatTargets(S, i, source, ev) ==
    IF ev.err # None THEN Raise(S, ev.err)
    ELSE RepeatEnd(ForTargets(Log(S, Note("action", S.acts[i].cls, source, None,
                                          S.acts[i].amount, ev.val, <<i>>, Snap(S))),
                              S.acts[i], source, ev.val, 1),
                   i, source, ev.val)

\* one repeat of TargetedAction.trigger: resolve the targets, notify the
\* observer, apply the effect to each target, notify the observer
Repeat(S, i, source) == RepeatTargets(S, i, source, EvaluateSelectors(S, S.acts[i], source))

\* n repeats that all reuse the targets ev, resolved once
RECURSIVE RepeatsWith(_, _, _, _, _)
RepeatsWith(S, i, source, n, ev) ==
    IF S.raised # None \/ n <= 0 THEN S
    ELSE RepeatsWith(RepeatTargets(S, i, source, ev), i, source, n - 1, ev)

\* the repeats with the targets resolved before the first of them
RepeatsFrozen(S, i, source, n) ==
    RepeatsWith(S, i, source, n, EvaluateSelectors(S, S.acts[i], source))

\* for i in range(self.times)
RECURSIVE Repeats(_, _, _, _)
Repeats(S, i, source, n) ==
    IF S.raised # None \/ n <= 0 THEN S
    ELSE Repeats(Repeat(S, i, source), i, source, n - 1)

\* TargetedAction.trigger(source, game) of instance i
TargetedTrigger(S, i, source) == Repeats(S, i, source, S.acts[i].times)

\* Deathrattle.gather(target): collects the deathrattles, then sorts with the
\* same unbound name
DeathrattleGather(S, target) == Raise(S, SortByOrderOfPlay(S, <<>>).err)

\* for entity, action in consequences_of_death: game.queue_actions(entity, action)
RECURSIVE QueueEach(_, _, _)
QueueEach(S, pairs, k) ==
    IF k > Len(pairs) THEN S
    ELSE QueueEach(QueueActions(S, pairs[k].entity, <<pairs[k].action>>), pairs, k + 1)

\* the end of Death.do: the consequences are sorted and queued one by one
DeathQueue(dr, sorted) ==
    IF dr.raised # None THEN dr
    ELSE IF sorted.err # None THEN Raise(dr, sorted.err)
    ELSE QueueEach(dr, sorted.val, 1)

\* Death.do after gather returned g: the deathrattles of the target join
DeathGathered(g, target) ==
    IF g.S.raised # None THEN g.S
    ELSE DeathQueue(IF HasDeathrattles(g.S, target)
                    THEN DeathrattleGather(ActionInit(g.S, "Deathrattle",
                                                      <<EntityArg(target)>>, 0), target)
                    ELSE g.S,
                    SortByOrderOfPlay(g.S, g.val))

\* Death.do after the broadcast left state b
DeathBroadcast(b, target) ==
    IF b.raised # None THEN b
    ELSE DeathGathered(Gather(b, "Death", "ON", <<target>>), target)

\* Death.do(source, game, target)
DeathDo(S, source, target) ==
    DeathBroadcast(Broadcast(S, "Death", "ON", <<target>>, 0), target)

\* game.process_deaths() at the end of GameAction.trigger
ProcessDeaths(S) == Log(S, Note("process_deaths", "", None, None, 0, <<>>, <<>>, <<>>))

\* the end of GameAction.trigger once do has run
GameActionEnd(done, cls, source, target) ==
    IF done.raised # None THEN done
    ELSE ProcessDeaths(Log(done, Note("action_end", cls, source, target, 0,
                                      <<target>>, <<>>, <<>>)))

\* GameAction.trigger(source, game) of a Death instance for target
DeathTrigger(S, source, target) ==
    GameActionEnd(DeathDo(Log(S, Note("action", "Death", source, target, 0,
                                      <<target>>, <<>>, Snap(S))),
                          source, target),
                  "Death", source, target)

(***************************************************************************)
(* Play and Attack                                                         *)
(***************************************************************************)
\* card.has_target(): the cards that are played on a target
HasTarget(c) == c \in {"K2", "K1a"}

\* card.data.choose_cards: the alternate modes the card can be played in
ChooseCards(c) == IF c = "K1" THEN {"K1a", "K1b"} ELSE {}

\* game.card(id) for the alternate mode, then the assignments of
\* Play.do to the card created: its controller, and its target if it takes one
Chosen(source, choice, tgt) ==
    [id |-> choice, controller |-> source,
     target |-> IF HasTarget(choice) THEN tgt ELSE None]

\* game.process_deaths() inside Play.do
PlayDeaths(S) == IF S.raised # None THEN S ELSE ProcessDeaths(S)

\* game.play(card), the external play resolution: the card leaves the hand
\* for the field, or the resolution fails
GamePlay(S, source, card, fails) ==
    IF S.raised # None THEN S
    ELSE IF fails
    THEN Raise(Log(S, Note("play", "Play", source, card, 0, <<card>>, <<>>, Snap(S))),
               "PlayError")
    ELSE Log([S EXCEPT !.zone[card] = "PLAY",
                       !.hand[source] = SelectSeq(@, LAMBDA c : c # card)],
             Note("play", "Play", source, card, 0, <<card>>, <<>>, Snap(S)))

\* the last two statements of Play.do: card.target = None, card.choose = None
PlayClear(S, card) ==
    IF S.raised # None THEN S
    ELSE [S EXCEPT !.target[card] = None, !.choose[card] = None]

\* a resolution with one death-processing pass, before the external play
\* resolution
PlayResolveOnePass(S, source, card, tgt, choice, fails) ==
    PlayClear(
        Broadcast(
            GamePlay(
                PlayDeaths(
                    Broadcast(S, "Play", "ON", <<source, card, tgt, choice>>, 0)),
                source, card, fails),
            "Play", "AFTER", <<source, card, tgt, choice>>, 0),
        card)

\* Play.do from the first broadcast on: ON, deaths, the external play
\* resolution, deaths, AFTER, then the card state is cleared
PlayResolve(S, source, card, tgt, choice, fails) ==
    PlayClear(
        Broadcast(
            PlayDeaths(
                GamePlay(
                    PlayDeaths(
                        Broadcast(S, "Play", "ON", <<source, card, tgt, choice>>, 0)),
                    source, card, fails)),
            "Play", "AFTER", <<source, card, tgt, choice>>, 0),
        card)

\* a Play.do that goes on without its assertions
PlayDoUnchecked(S, source, card, tgt, choice, fails) ==
    PlayResolve([S EXCEPT !.target[card] = tgt, !.choose[card] = choice],
                source, card, tgt, choice, fails)

\* Play.do once card.target is set: the alternate mode, if one is named,
\* must be one of the card's
PlayChoose(S, source, card, tgt, choice, fails) ==
    IF choice = None
    THEN PlayResolve([S EXCEPT !.choose[card] = None], source, card, tgt, choice, fails)
    ELSE IF choice \notin ChooseCards(card) THEN Raise(S, "AssertionError")
    ELSE PlayResolve([S EXCEPT !.chosen[card] = Chosen(source, choice, tgt),
                               !.choose[card] = choice],
                     source, card, tgt, choice, fails)

\* Play.do(source, game, *args)
PlayDo(S, source, card, tgt, choice, fails) ==
    IF HasTarget(card) /\ tgt = None THEN Raise(S, "AssertionError")
    ELSE PlayChoose([S EXCEPT !.target[card] = tgt], source, card, tgt, choice, fails)

\* Play.get_args: the player joins the arguments
PlayGetArgs(source, card, tgt, choice) == <<source, card, tgt, choice>>

\* GameAction.trigger(source, game) of a Play instance
PlayTrigger(S, source, card, tgt, choice, fails) ==
    GameActionEnd(PlayDo(Log(S, Note("action", "Play", source, card, 0,
                                     PlayGetArgs(source, card, tgt, choice), <<>>, Snap(S))),
                         source, card, tgt, choice, fails),
                  "Play", source, card)

\* character.atk
Atk(e) == IF e = "M2" THEN 0 ELSE 1

\* game._attack(), the external combat resolution: the two characters hit
\* each other and leave combat
GameAttack(S, attacker, defender) ==
    IF S.raised # None THEN S
    ELSE Log([S EXCEPT !.damage[defender] = @ + Atk(attacker),
                       !.damage[attacker] = @ + Atk(defender),
                       !.attacking[attacker] = FALSE,
                       !.defending[defender] = FALSE],
             Note("attack", "Attack", attacker, defender, 0, <<attacker, defender>>, <<>>,
                  Snap(S)))

\* Attack.get_args: the flags of the two characters are raised
AttackGetArgs(S, attacker, defender) ==
    [S EXCEPT !.attacking[attacker] = TRUE, !.defending[defender] = TRUE]

\* Attack.do(source, game, *args)
AttackDo(S, source, attacker, defender) ==
    GameAttack(Broadcast(S, "Attack", "ON", <<attacker, defender>>, 0), attacker, defender)

\* the notification that opens GameAction.trigger of an Attack instance
AttackAction(S, source, attacker, defender) ==
    Log(S, Note("action", "Attack", source, defender, 0, <<attacker, defender>>, <<>>,
                Snap(S)))

\* GameAction.trigger(source, game) of an Attack instance
AttackTrigger(S, source, attacker, defender) ==
    GameActionEnd(AttackDo(AttackAction(AttackGetArgs(S, attacker, defender),
                                        source, attacker, defender),
                           source, attacker, defender),
                  "Attack", source, defender)

(***************************************************************************)
(* Evaluator: the lazy gates Dead and Find                                 *)
(***************************************************************************)
\* a branch of an Evaluator that is not set
NoBranch == [single |-> FALSE, actions |-> <<>>, set |-> FALSE]

\* no Evaluator has been constructed
NoGate == [cls |-> None, selector |-> SELF, count |-> 0, _if |-> NoBranch, _else |-> NoBranch]

\* Evaluator.__init__ by way of Dead.__init__ / Find.__init__
EvaluatorInit(cls, selector, count) ==
    [cls |-> cls, selector |-> selector, count |-> count,
     _if |-> NoBranch, _else |-> NoBranch]

\* the value bound to a branch: one effect, or a list of effects
Branch(single, ids) == [single |-> single, actions |-> ids, set |-> TRUE]

\* Evaluator.__and__ and Evaluator.__or__
EvaluatorAnd(g, branch) == [g EXCEPT !._if = branch]
EvaluatorOr(g, branch) == [g EXCEPT !._else = branch]

\* the truth value Python gives the value bound to a branch
Truthy(branch) == branch.set /\ (branch.single \/ branch.actions # <<>>)

\* Dead.evaluate and Find.evaluate on the list ev the selector returned
Evaluate(S, g, ev) ==
    IF g.cls = "Dead" THEN \A k \in 1..Len(ev) : IsDead(S, ev[k])
    ELSE Len(ev) >= g.count

\* an element of the list get_actions returns: an effect instance, or 0 for
\* an element that is itself a list
ListObject == 0

\* Evaluator.get_actions once evaluate returned ret: a list bound to the
\* if-branch is returned as it is, a list bound to the else-branch is
\* returned as the only element of a new list
GetActions(g, ret) ==
    IF ret THEN (IF Truthy(g._if) THEN g._if.actions ELSE <<>>)
    ELSE IF Truthy(g._else)
    THEN (IF g._else.single THEN g._else.actions ELSE <<ListObject>>)
    ELSE <<>>

\* for action in actions: action.trigger(source, game)
RECURSIVE TriggerEach(_, _, _, _)
TriggerEach(S, actions, source, k) ==
    IF S.raised # None \/ k > Len(actions) THEN S
    ELSE IF actions[k] = ListObject THEN Raise(S, "AttributeError")
    ELSE TriggerEach(TargetedTrigger(S, actions[k], source), actions, source, k + 1)

\* Evaluator.trigger once the selector of the gate returned ev
EvaluatorEvaluated(S, g, source, ev) ==
    IF ev.err # None THEN Raise(S, ev.err)
    ELSE TriggerEach(Log(S, Note("evaluate", g.cls, source, None,
                                 IF Evaluate(S, g, ev.val) THEN 1 ELSE 0,
                                 ev.val, GetActions(g, Evaluate(S, g, ev.val)), Snap(S))),
                     GetActions(g, Evaluate(S, g, ev.val)), source, 1)

\* Evaluator.trigger(source, game)
EvaluatorTrigger(S, g, source) ==
    EvaluatorEvaluated(S, g, source, Eval(g.selector, GameEntities, source, WorldOf(S), 0))

(***************************************************************************)
(* Spec: the driver constructs effects, attaches registrations, resolves   *)
(***************************************************************************)
NoHist == [op |-> "none", a |-> SELF, b |-> SELF]
NoOut == [done |-> FALSE, entities |-> <<>>, source |-> None,
          a |-> <<>>, aerr |-> None,
          ha |-> <<>>, haerr |-> None, hb |-> <<>>, hberr |-> None]

\* no effect is waiting to be resolved
NoPending == [act |-> 0, source |-> None]

\* driver bounds
MaxRegs == 2
MaxSteps == 2
MaxTimes == 2

\* no entity carries a deathrattle, no player has the modifier
NoDeathrattles ==
    /\ deathrattles = [e \in Entities |-> <<>>]
    /\ extra_deathrattles = [p \in Players |-> FALSE]

\* no card has been created, the content pool is empty and not yet filtered
NoContent ==
    /\ cards = <<>>
    /\ pool = <<>>
    /\ generator = NoCards
    /\ rnd = 0

\* no card is being played, no character is in combat, no gate is built
NoPlay ==
    /\ NoDeathrattles
    /\ NoContent
    /\ gate = NoGate
    /\ card_target = [e \in Entities |-> None]
    /\ card_choose = [e \in Entities |-> None]
    /\ card_chosen = [e \in Entities |-> None]
    /\ attacking = [e \in Entities |-> FALSE]
    /\ defending = [e \in Entities |-> FALSE]

GameInit ==
    /\ order_of_play = 0
    /\ acts = <<>>
    /\ events = [e \in Entities |-> <<>>]
    /\ zone = [e \in Entities |-> IF e \in Cards THEN "DECK" ELSE "PLAY"]
    /\ damage = [e \in Entities |-> 0]
    /\ deck = [p \in Players |-> IF p = "P1" THEN <<"K1", "K2">> ELSE <<>>]
    /\ hand = [p \in Players |-> <<>>]
    /\ fatigue = [p \in Players |-> 0]
    /\ modifiers = [p \in Players |->
                       [healing_double |-> 0, outgoing_healing_adjustment |-> FALSE]]
    /\ queue = <<>>
    /\ raised = None
    /\ trace = <<>>
    /\ fired = <<>>
    /\ pending = NoPending
    /\ steps = 0
    /\ NoPlay
    /\ armor = [e \in Entities |-> 0]

\* the selector algebra is idle in Spec
SelIdle ==
    /\ selA = SELF
    /\ selB = SELF
    /\ selHist = NoHist
    /\ selOps = 0
    /\ selOut = NoOut

Init == SelIdle /\ GameInit

NumRegs == Len(events["M1"]) + Len(events["M2"]) + Len(events["M3"])

\* the registrations card definitions attach: the entity, the trigger
\* pattern and whether the registration is single-fire
Registrations ==
    {[e |-> "M1", cls |-> "Death", sel |-> SELF, once |-> FALSE, at |-> "ON", zone |-> "PLAY"],
     [e |-> "M2", cls |-> "Death", sel |-> MINION, once |-> TRUE, at |-> "ON", zone |-> "PLAY"],
     [e |-> "M1", cls |-> "Damage", sel |-> SELF, once |-> TRUE, at |-> "ON", zone |-> "PLAY"]}

\* entity reg.e gets the registration  pattern.on(Draw(CONTROLLER)),
\* pattern.after(Draw(CONTROLLER))  or  pattern.once(Draw(CONTROLLER)), for
\* the zone reg.zone: the pattern is constructed first
Attach(reg) ==
    /\ raised = None /\ pending.act = 0 /\ steps = 0
    /\ NumRegs < MaxRegs
    /\ LET S1 == New(Cur, reg.cls, <<reg.sel>>, 0)
           t == Len(S1.acts)
           S2 == New(S1, "Draw", <<CONTROLLER>>, 0)
           f == Len(S2.acts)
       IN Commit([S2 EXCEPT !.events[reg.e] =
                      Append(@, EventListener(t, <<f>>, reg.at, reg.zone, reg.once))])
    /\ UNCHANGED <<pending, steps>>
    /\ UNCHANGED selVars

\* the targeted effects the driver resolves, each with the entity it is
\* resolved for (the source)
Effects ==
    {[cls |-> "Damage", sel |-> EntityArg("M1"), amount |-> 1, source |-> "M3"],
     [cls |-> "Damage", sel |-> UNDAMAGED_MINIONS, amount |-> 1, source |-> "M3"],
     [cls |-> "Draw", sel |-> CONTROLLER, amount |-> 0, source |-> "M1"],
     [cls |-> "Draw", sel |-> CONTROLLER, amount |-> 0, source |-> "M3"]}

\* an effect is constructed
Construct(eff) ==
    /\ raised = None /\ pending.act = 0 /\ steps < MaxSteps
    /\ Commit(New(Cur, eff.cls, <<eff.sel>>, eff.amount))
    /\ pending' = [act |-> Len(acts) + 1, source |-> eff.source]
    /\ UNCHANGED steps
    /\ UNCHANGED selVars

\* effect * n
Multiply(n) ==
    /\ raised = None /\ pending.act # 0
    /\ acts[pending.act].times = 1
    /\ Commit(ActionMul(Cur, pending.act, n))
    /\ UNCHANGED <<pending, steps>>
    /\ UNCHANGED selVars

\* the constructed effect is resolved for its source
Trigger ==
    /\ raised = None /\ pending.act # 0
    /\ Commit(TargetedTrigger([Cur EXCEPT !.trace = <<>>], pending.act, pending.source))
    /\ pending' = NoPending
    /\ steps' = steps + 1
    /\ UNCHANGED selVars

\* the minion leaves play once its Death went through
Buried(S, target) ==
    IF S.raised # None THEN S ELSE [S EXCEPT !.zone[target] = "GRAVEYARD"]

\* death processing finds a dead minion in play: Death(target) is
\* constructed and resolved
DeathStep(target) ==
    /\ raised = None /\ pending.act = 0 /\ steps < MaxSteps
    /\ zone[target] = "PLAY" /\ IsDead(Cur, target)
    /\ Commit(Buried(DeathTrigger(New([Cur EXCEPT !.trace = <<>>], "Death",
                                      <<EntityArg(target)>>, 0),
                                  Controller(target), target), target))
    /\ steps' = steps + 1
    /\ UNCHANGED pending
    /\ UNCHANGED selVars

\* the driver resolves the oldest pending effect of the queue
RunQueue ==
    /\ raised = None /\ pending.act = 0 /\ steps < MaxSteps
    /\ Len(queue) > 0
    /\ Commit(TargetedTrigger([Cur EXCEPT !.trace = <<>>, !.queue = Tail(@)],
                              queue[1].action, queue[1].source))
    /\ steps' = steps + 1
    /\ UNCHANGED pending
    /\ UNCHANGED selVars

Next ==
    \/ \E reg \in Registrations : Attach(reg)
    \/ \E eff \in Effects : Construct(eff)
    \/ \E n \in 2..MaxTimes : Multiply(n)
    \/ Trigger
    \/ \E target \in Minions : DeathStep(target)
    \/ RunQueue

Spec == Init /\ [][Next]_vars

(***************************************************************************)
(* PlaySpec: cards are played, characters attack, the dead are buried      *)
(***************************************************************************)
\* P1 holds K1 and K2, the decks are empty
PlayInit ==
    /\ SelIdle
    /\ order_of_play = 0
    /\ acts = <<>>
    /\ events = [e \in Entities |-> <<>>]
    /\ zone = [e \in Entities |-> IF e \in Cards THEN "HAND" ELSE "PLAY"]
    /\ damage = [e \in Entities |-> 0]
    /\ deck = [p \in Players |-> <<>>]
    /\ hand = [p \in Players |-> IF p = "P1" THEN <<"K1", "K2">> ELSE <<>>]
    /\ fatigue = [p \in Players |-> 0]
    /\ modifiers = [p \in Players |->
                       [healing_double |-> 0, outgoing_healing_adjustment |-> FALSE]]
    /\ queue = <<>>
    /\ raised = None
    /\ trace = <<>>
    /\ fired = <<>>
    /\ pending = NoPending
    /\ steps = 0
    /\ NoPlay
    /\ armor = [e \in Entities |-> 0]

\* the registrations of PlaySpec
PlayRegistrations ==
    {[e |-> "M1", cls |-> "Play", sel |-> CONTROLLER, once |-> FALSE, at |-> "ON", zone |-> "PLAY"],
     [e |-> "M1", cls |-> "Play", sel |-> CONTROLLER, once |-> TRUE, at |-> "ON", zone |-> "PLAY"],
     [e |-> "M1", cls |-> "Play", sel |-> CONTROLLER, once |-> FALSE, at |-> "AFTER", zone |-> "PLAY"],
     [e |-> "M2", cls |-> "Attack", sel |-> MINION, once |-> TRUE, at |-> "ON", zone |-> "PLAY"],
     [e |-> "M2", cls |-> "Play", sel |-> CONTROLLER, once |-> FALSE, at |-> "ON", zone |-> "HAND"],
     [e |-> "M3", cls |-> "Play", sel |-> PLAYER, once |-> FALSE, at |-> "ON", zone |-> "PLAY"]}

\* the choices of the player: the target and the alternate mode named
PlayTargets == {None, "M2"}
PlayChoices == {None, "K1a"}

\* player.play(card, target, choose): Play(card, target, choose) is
\* constructed and resolved for the player
PlayStep(card, tgt, choice, fails) ==
    /\ raised = None /\ steps < MaxSteps
    /\ zone[card] = "HAND"
    /\ Commit(PlayTrigger(New([Cur EXCEPT !.trace = <<>>], "Play",
                               <<EntityArg(card), EntityArg(tgt), EntityArg(choice)>>, 0),
                           Controller(card), card, tgt, choice, fails))
    /\ steps' = steps + 1
    /\ UNCHANGED pending
    /\ UNCHANGED selVars

\* the pairs of characters that can fight
Attacks == {<<"M3", "M1">>, <<"M1", "M3">>, <<"M3", "M2">>}

\* character.attack(target): Attack(attacker, defender) is constructed and
\* resolved for the controller of the attacker
AttackStep(attacker, defender) ==
    /\ raised = None /\ steps < MaxSteps
    /\ zone[attacker] = "PLAY" /\ zone[defender] = "PLAY"
    /\ ~IsDead(Cur, attacker) /\ ~IsDead(Cur, defender)
    /\ Commit(AttackTrigger(New([Cur EXCEPT !.trace = <<>>], "Attack",
                                 <<EntityArg(attacker), EntityArg(defender)>>, 0),
                             Controller(attacker), attacker, defender))
    /\ steps' = steps + 1
    /\ UNCHANGED pending
    /\ UNCHANGED selVars

PlayNext ==
    \/ \E reg \in PlayRegistrations : Attach(reg)
    \/ \E card \in Cards, tgt \in PlayTargets, choice \in PlayChoices, fails \in BOOLEAN :
          PlayStep(card, tgt, choice, fails)
    \/ \E pair \in Attacks : AttackStep(pair[1], pair[2])
    \/ \E t \in Minions : DeathStep(t)

PlaySpec == PlayInit /\ [][PlayNext]_vars

(***************************************************************************)
(* SelSpec: the selector algebra and Selector.eval                         *)
(***************************************************************************)
\* the world selectors are evaluated against in SelSpec: every minion in
\* play, M2 damaged, K1 in the deck and K2 in the hand of P1, M3 hostile
SelWorld ==
    World([e \in Entities |-> IF e \in Minions \/ e \in Players THEN "PLAY"
                              ELSE IF e = "K1" THEN "DECK" ELSE "HAND"],
          [e \in Entities |-> IF e = "M2" THEN 1 ELSE 0],
          [e \in Entities |-> IF e \in {"P2", "M3"} THEN "P2" ELSE "P1"],
          [e \in Entities |-> IF e = "K2" THEN "M2" ELSE None])

LeftCatalogue ==
    {MINION, DAMAGED, FRIENDLY, SELF, OWNER, TARGET, RANDOM_MINION, SELF_ADJACENT}
RightCatalogue == {MINION, DAMAGED, SELF}

\* the input collections and sources evaluations are run on
SelInputs == {<<>>, GameEntities, <<"M3", "M1">>, <<"K1", "P1">>}
SelSources == {"M1", "M3"}

SelInit ==
    /\ selA \in LeftCatalogue
    /\ selB \in RightCatalogue
    /\ selHist = NoHist
    /\ selOps = 0
    /\ selOut = NoOut
    /\ GameInit

\* a | b: RandomSelector overrides __or__, every other class inherits Selector's
OrOf(a, b) == IF a.cls = "RandomSelector" THEN RandomOr(a, "selB") ELSE SelOr(a, b)

\* selA = selA <op> selB for the binary operators | + -
SelBinary(op) ==
    /\ selOps < MaxOps
    /\ selOut.done = FALSE
    /\ selA' = CASE op = "or" -> OrOf(selA, selB)
                 [] op = "add" -> SelAdd(selA, selB)
                 [] op = "sub" -> SelSub(selA, selB)
    /\ selHist' = [op |-> op, a |-> selA, b |-> selB]
    /\ selOps' = selOps + 1
    /\ UNCHANGED <<selB, selOut>>
    /\ UNCHANGED gameVars

\* wrap an operand: AdjacentSelector(sel) or RANDOM(sel)
SelWrap(left, kind) ==
    /\ selOps < MaxOps
    /\ selOut.done = FALSE
    /\ LET old == IF left THEN selA ELSE selB
           new == IF kind = "adjacent" THEN AdjacentSelector(old) ELSE RANDOM(old)
       IN IF left THEN selA' = new /\ selB' = selB ELSE selB' = new /\ selA' = selA
    /\ selHist' = NoHist
    /\ selOps' = selOps + 1
    /\ UNCHANGED selOut
    /\ UNCHANGED gameVars

\* selA = selA * n, for a RandomSelector
SelMul(n) ==
    /\ selOps < MaxOps
    /\ selOut.done = FALSE
    /\ selA.cls = "RandomSelector"
    /\ selA' = RandomMul(selA, n)
    /\ selHist' = [op |-> "mul", a |-> selA, b |-> selB, n |-> n]
    /\ selOps' = selOps + 1
    /\ UNCHANGED <<selB, selOut>>
    /\ UNCHANGED gameVars

SelOutcome(entities, source, ra, rha, rhb) ==
    [done |-> TRUE, entities |-> entities, source |-> source,
     a |-> ra.val, aerr |-> ra.err,
     ha |-> rha.val, haerr |-> rha.err, hb |-> rhb.val, hberr |-> rhb.err]

\* evaluate selA, and the operands of the last binary operation, on one input
SelEval(entities, source, r) ==
    /\ selOut.done = FALSE
    /\ selOut' = SelOutcome(entities, source,
                            Eval(selA, entities, source, SelWorld, r),
                            Eval(selHist.a, entities, source, SelWorld, r),
                            Eval(selHist.b, entities, source, SelWorld, r))
    /\ UNCHANGED <<selA, selB, selHist, selOps>>
    /\ UNCHANGED gameVars

SelNext ==
    \/ \E op \in {"or", "add", "sub"} : SelBinary(op)
    \/ \E left \in BOOLEAN, kind \in {"adjacent", "random"} : SelWrap(left, kind)
    \/ \E n \in 1..MaxMul : SelMul(n)
    \/ \E entities \in SelInputs, source \in SelSources, r \in 0..(MaxSeed - 1) :
          SelEval(entities, source, r)

SelSpec == SelInit /\ [][SelNext]_vars

(***************************************************************************)
(* HealSpec: Heal effects under every combination of the healing modifiers *)
(***************************************************************************)
\* the modifiers of P1 are drawn, P2 has none
HealModifiers ==
    {[p \in Players |->
         IF p = "P1" THEN [healing_double |-> h, outgoing_healing_adjustment |-> o]
         ELSE [healing_double |-> 0, outgoing_healing_adjustment |-> FALSE]] :
     h \in {0, 1}, o \in BOOLEAN}

\* M3 starts undamaged, lightly damaged or with 3 damage
HealDamages == {[e \in Entities |-> IF e = "M3" THEN d ELSE 0] : d \in {0, 1, 3}}

HealInit ==
    /\ SelIdle
    /\ order_of_play = 0
    /\ acts = <<>>
    /\ events = [e \in Entities |-> <<>>]
    /\ zone = [e \in Entities |-> IF e \in Cards THEN "DECK" ELSE "PLAY"]
    /\ damage \in HealDamages
    /\ deck = [p \in Players |-> IF p = "P1" THEN <<"K1", "K2">> ELSE <<>>]
    /\ hand = [p \in Players |-> <<>>]
    /\ fatigue = [p \in Players |-> 0]
    /\ modifiers \in HealModifiers
    /\ queue = <<>>
    /\ raised = None
    /\ trace = <<>>
    /\ fired = <<>>
    /\ pending = NoPending
    /\ steps = 0
    /\ NoPlay
    /\ armor = [e \in Entities |-> 0]

\* the Heal effects the driver resolves
HealEffects ==
    {[cls |-> "Heal", sel |-> sel, amount |-> a, source |-> src] :
         sel \in {EntityArg("M3"), ALL_MINIONS}, a \in {1, 5}, src \in {"M1", "M3"}}

HealNext ==
    \/ \E eff \in HealEffects : Construct(eff)
    \/ \E n \in 2..MaxTimes : Multiply(n)
    \/ Trigger

HealSpec == HealInit /\ [][HealNext]_vars

(***************************************************************************)
(* DamageSpec: Damage effects on heroes with and without armor             *)
(***************************************************************************)
\* the hero of P1 starts with no armor, with 1 or with 3
Armors == {[e \in Entities |-> IF e = "P1" THEN n ELSE 0] : n \in {0, 1, 3}}

DamageInit ==
    /\ SelIdle
    /\ order_of_play = 0
    /\ acts = <<>>
    /\ events = [e \in Entities |-> <<>>]
    /\ zone = [e \in Entities |-> IF e \in Cards THEN "DECK" ELSE "PLAY"]
    /\ damage = [e \in Entities |-> 0]
    /\ deck = [p \in Players |-> IF p = "P1" THEN <<"K1", "K2">> ELSE <<>>]
    /\ hand = [p \in Players |-> <<>>]
    /\ fatigue = [p \in Players |-> 0]
    /\ modifiers = [p \in Players |->
                       [healing_double |-> 0, outgoing_healing_adjustment |-> FALSE]]
    /\ queue = <<>>
    /\ raised = None
    /\ trace = <<>>
    /\ fired = <<>>
    /\ pending = NoPending
    /\ steps = 0
    /\ NoPlay
    /\ armor \in Armors

\* the Damage effects the driver resolves
DamageEffects ==
    {[cls |-> "Damage", sel |-> sel, amount |-> a, source |-> src] :
         sel \in {EntityArg("P1"), PLAYER, EntityArg("M2")}, a \in {0, 1, 3},
         src \in {"M1", "M3"}}

DamageNext ==
    \/ \E eff \in DamageEffects : Construct(eff)
    \/ \E n \in 2..MaxTimes : Multiply(n)
    \/ Trigger

DamageSpec == DamageInit /\ [][DamageNext]_vars

(***************************************************************************)
(* DeathrattleSpec: entities get deathrattles, Deathrattle effects resolve *)
(***************************************************************************)
\* largest number of deathrattles over all entities
MaxDeathrattles == 2

\* either player may have the extra_deathrattles modifier
ExtraDeathrattles == [Players -> BOOLEAN]

DeathrattleInit ==
    /\ SelIdle
    /\ order_of_play = 0
    /\ acts = <<>>
    /\ events = [e \in Entities |-> <<>>]
    /\ zone = [e \in Entities |-> IF e \in Cards THEN "DECK" ELSE "PLAY"]
    /\ damage = [e \in Entities |-> 0]
    /\ deck = [p \in Players |-> IF p = "P1" THEN <<"K1", "K2">> ELSE <<>>]
    /\ hand = [p \in Players |-> <<>>]
    /\ fatigue = [p \in Players |-> 0]
    /\ modifiers = [p \in Players |->
                       [healing_double |-> 0, outgoing_healing_adjustment |-> FALSE]]
    /\ queue = <<>>
    /\ raised = None
    /\ trace = <<>>
    /\ fired = <<>>
    /\ pending = NoPending
    /\ steps = 0
    /\ gate = NoGate
    /\ card_target = [e \in Entities |-> None]
    /\ card_choose = [e \in Entities |-> None]
    /\ card_chosen = [e \in Entities |-> None]
    /\ attacking = [e \in Entities |-> FALSE]
    /\ defending = [e \in Entities |-> FALSE]
    /\ armor = [e \in Entities |-> 0]
    /\ deathrattles = [e \in Entities |-> <<>>]
    /\ extra_deathrattles \in ExtraDeathrattles
    /\ NoContent

NumDeathrattles == Len(deathrattles["M1"]) + Len(deathrattles["M2"])

\* the second effect of a deathrattle of two effects: Damage(SELF, 1) is
\* constructed after the Draw
WithDamage(S, two) == IF two THEN New(S, "Damage", <<SELF>>, 1) ELSE S

\* the deathrattle whose effects are the instances constructed after instance n
NewDeathrattle(S, e, n) ==
    [S EXCEPT !.deathrattles[e] = Append(@, [j \in 1..(Len(S.acts) - n) |-> n + j])]

\* entity e gets the deathrattle [Draw(CONTROLLER)] or
\* [Draw(CONTROLLER), Damage(SELF, 1)]: the effects are constructed first
AddDeathrattle(e, two) ==
    /\ raised = None /\ pending.act = 0 /\ steps = 0
    /\ NumDeathrattles < MaxDeathrattles
    /\ Commit(NewDeathrattle(WithDamage(New(Cur, "Draw", <<CONTROLLER>>, 0), two),
                             e, Len(acts)))
    /\ UNCHANGED <<pending, steps>>
    /\ UNCHANGED selVars

\* the Deathrattle effects the driver resolves, for a source of the player
\* who controls neither M1 nor M2
DeathrattleEffects ==
    {[cls |-> "Deathrattle", sel |-> sel, amount |-> 0, source |-> "M3"] :
         sel \in {EntityArg("M2"), ALL_MINIONS}}

DeathrattleNext ==
    \/ \E e \in {"M1", "M2"}, two \in BOOLEAN : AddDeathrattle(e, two)
    \/ \E eff \in DeathrattleEffects : Construct(eff)
    \/ \E n \in 2..MaxTimes : Multiply(n)
    \/ Trigger

DeathrattleSpec == DeathrattleInit /\ [][DeathrattleNext]_vars

(***************************************************************************)
(* CardSpec: card definitions construct Give, Summon and Shuffle effects   *)
(* up front; the effects are resolved later, while the content pool and    *)
(* the board change                                                        *)
(***************************************************************************)
\* number of effects the card definitions construct
MaxDefs == 2

\* the content pools cards.filter may return
Pools == {<<"X", "Y">>, <<"Z">>}

CardInit ==
    /\ SelIdle
    /\ order_of_play = 0
    /\ acts = <<>>
    /\ events = [e \in Entities |-> <<>>]
    /\ zone = [e \in Entities |-> IF e \in Cards THEN "DECK" ELSE "PLAY"]
    /\ damage = [e \in Entities |-> 0]
    /\ deck = [p \in Players |-> IF p = "P1" THEN <<"K1", "K2">> ELSE <<>>]
    /\ hand = [p \in Players |-> <<>>]
    /\ fatigue = [p \in Players |-> 0]
    /\ modifiers = [p \in Players |->
                       [healing_double |-> 0, outgoing_healing_adjustment |-> FALSE]]
    /\ queue = <<>>
    /\ raised = None
    /\ trace = <<>>
    /\ fired = <<>>
    /\ pending = NoPending
    /\ steps = 0
    /\ gate = NoGate
    /\ card_target = [e \in Entities |-> None]
    /\ card_choose = [e \in Entities |-> None]
    /\ card_chosen = [e \in Entities |-> None]
    /\ attacking = [e \in Entities |-> FALSE]
    /\ defending = [e \in Entities |-> FALSE]
    /\ armor = [e \in Entities |-> 0]
    /\ NoDeathrattles
    /\ cards = <<>>
    /\ pool = <<"X", "Y">>
    /\ generator = NoCards
    /\ rnd \in 0..(MaxSeed - 1)

\* the effects of the card definitions:  Give(PLAYER, "X"),
\* Give(CONTROLLER, RandomCard) * MaxTimes,  Summon(CONTROLLER, Copy(DAMAGED)),
\* Damage(M2, 1)
CardEffects ==
    {[cls |-> "Give", args |-> <<PLAYER, CardId("X")>>, amount |-> 0, times |-> 1],
     [cls |-> "Give", args |-> <<CONTROLLER, RandomCard>>, amount |-> 0, times |-> MaxTimes],
     [cls |-> "Summon", args |-> <<CONTROLLER, Copy(DAMAGED)>>, amount |-> 0, times |-> 1],
     [cls |-> "Damage", args |-> <<EntityArg("M2")>>, amount |-> 1, times |-> 1]}

\* effect * times on the instance constructed last
Times(S, times) == IF times = 1 THEN S ELSE ActionMul(S, Len(S.acts), times)

\* a card definition constructs an effect
Define(eff) ==
    /\ raised = None /\ steps = 0
    /\ Len(acts) < MaxDefs
    /\ Commit(Times(New(Cur, eff.cls, eff.args, eff.amount), eff.times))
    /\ UNCHANGED <<pending, steps>>
    /\ UNCHANGED selVars

\* effect instance i is resolved for M1
Resolve(i) ==
    /\ raised = None /\ steps < MaxSteps
    /\ i \in 1..Len(acts)
    /\ Commit(TargetedTrigger([Cur EXCEPT !.trace = <<>>], i, "M1"))
    /\ steps' = steps + 1
    /\ UNCHANGED pending
    /\ UNCHANGED selVars

\* the content pool changes: cards.filter returns p from now on
PoolChange(p) ==
    /\ raised = None
    /\ p # pool
    /\ Commit([Cur EXCEPT !.pool = p])
    /\ UNCHANGED <<pending, steps>>
    /\ UNCHANGED selVars

CardNext ==
    \/ \E eff \in CardEffects : Define(eff)
    \/ \E i \in 1..MaxDefs : Resolve(i)
    \/ \E p \in Pools : PoolChange(p)

CardSpec == CardInit /\ [][CardNext]_vars

(***************************************************************************)
(* SummonSpec: Summon, Give and Shuffle resolve while entities carry       *)
(* registrations on them                                                   *)
(***************************************************************************)
\* registrations on Summon, Give and Shuffle, for either phase
CardRegistrations ==
    {[e |-> "M1", cls |-> "Summon", sel |-> PLAYER, once |-> FALSE, at |-> "ON", zone |-> "PLAY"],
     [e |-> "M2", cls |-> "Summon", sel |-> CONTROLLER, once |-> FALSE, at |-> "AFTER", zone |-> "PLAY"],
     [e |-> "M1", cls |-> "Give", sel |-> PLAYER, once |-> FALSE, at |-> "ON", zone |-> "PLAY"],
     [e |-> "M2", cls |-> "Shuffle", sel |-> PLAYER, once |-> FALSE, at |-> "AFTER", zone |-> "PLAY"]}

\* the effects the driver resolves for M1: card "X" for each player, or a
\* copy of every minion in play for the controller
SummonEffects ==
    {[cls |-> cls, sel |-> a.sel, card |-> a.card, source |-> "M1"] :
         cls \in {"Summon", "Give", "Shuffle"},
         a \in {[sel |-> PLAYER, card |-> CardId("X")],
                [sel |-> CONTROLLER, card |-> Copy(ALL_MINIONS)]}}

\* an effect with a card argument is constructed
ConstructCard(eff) ==
    /\ raised = None /\ pending.act = 0 /\ steps < MaxSteps
    /\ Commit(New(Cur, eff.cls, <<eff.sel, eff.card>>, 0))
    /\ pending' = [act |-> Len(acts) + 1, source |-> eff.source]
    /\ UNCHANGED steps
    /\ UNCHANGED selVars

SummonNext ==
    \/ \E reg \in CardRegistrations : Attach(reg)
    \/ \E eff \in SummonEffects : ConstructCard(eff)
    \/ Trigger

SummonSpec == Init /\ [][SummonNext]_vars

(***************************************************************************)
(* TargetSpec: Damage effects whose targets depend on the damage dealt     *)
(***************************************************************************)
\* the Damage effects the driver resolves: on M1, on the undamaged minions,
\* on the neighbours of the undamaged minions, on the neighbours of the
\* damaged entities
TargetEffects ==
    {[cls |-> "Damage", sel |-> sel, amount |-> 1, source |-> "M3"] :
         sel \in {EntityArg("M1"), UNDAMAGED_MINIONS,
                  AdjacentSelector(UNDAMAGED_MINIONS), AdjacentSelector(DAMAGED)}}

TargetNext ==
    \/ \E eff \in TargetEffects : Construct(eff)
    \/ \E n \in 2..MaxTimes : Multiply(n)
    \/ Trigger

TargetSpec == Init /\ [][TargetNext]_vars

(***************************************************************************)
(* GateSpec: gates are built from Dead and Find and resolved               *)
(***************************************************************************)
\* the gates card definitions declare: Dead(SELF), Find(DAMAGED), and a
\* Find that asks for two damaged entities
Gates ==
    {EvaluatorInit("Dead", SELF, 0), EvaluatorInit("Find", DAMAGED, 1),
     EvaluatorInit("Find", DAMAGED, 2)}

\* the effects a branch is built from
GateEffects ==
    {[cls |-> "Damage", sel |-> EntityArg("M1"), amount |-> 1],
     [cls |-> "Damage", sel |-> EntityArg("M2"), amount |-> 1]}

\* Dead(selector) or Find(selector, count) is constructed
NewGate(g) ==
    /\ raised = None /\ gate = NoGate /\ pending.act = 0
    /\ Commit([Cur EXCEPT !.gate = g])
    /\ UNCHANGED <<pending, steps>>
    /\ UNCHANGED selVars

\* the effects of a branch are constructed: one effect e1 bound by itself, or
\* the list [e1, e2]
BranchOf(S, single) ==
    IF single THEN Branch(TRUE, <<Len(S.acts)>>)
    ELSE Branch(FALSE, <<Len(S.acts) - 1, Len(S.acts)>>)

NewBranch(S, e1, e2, single) ==
    IF single THEN New(S, e1.cls, <<e1.sel>>, e1.amount)
    ELSE New(New(S, e1.cls, <<e1.sel>>, e1.amount), e2.cls, <<e2.sel>>, e2.amount)

\* gate & branch
GateAnd(e1, e2, single) ==
    /\ raised = None /\ gate # NoGate /\ steps = 0
    /\ ~gate._if.set /\ ~gate._else.set
    /\ Commit([NewBranch(Cur, e1, e2, single) EXCEPT
                   !.gate = EvaluatorAnd(gate, BranchOf(NewBranch(Cur, e1, e2, single), single))])
    /\ UNCHANGED <<pending, steps>>
    /\ UNCHANGED selVars

\* gate | branch
GateOr(e1, e2, single) ==
    /\ raised = None /\ gate # NoGate /\ steps = 0
    /\ ~gate._else.set
    /\ Commit([NewBranch(Cur, e1, e2, single) EXCEPT
                   !.gate = EvaluatorOr(gate, BranchOf(NewBranch(Cur, e1, e2, single), single))])
    /\ UNCHANGED <<pending, steps>>
    /\ UNCHANGED selVars

\* the gate is resolved for M1
GateTrigger ==
    /\ raised = None /\ gate # NoGate /\ steps < MaxSteps
    /\ Commit(EvaluatorTrigger([Cur EXCEPT !.trace = <<>>], gate, "M1"))
    /\ steps' = steps + 1
    /\ UNCHANGED pending
    /\ UNCHANGED selVars

GateNext ==
    \/ \E g \in Gates : NewGate(g)
    \/ \E e1, e2 \in GateEffects, single \in BOOLEAN : GateAnd(e1, e2, single)
    \/ \E e1, e2 \in GateEffects, single \in BOOLEAN : GateOr(e1, e2, single)
    \/ GateTrigger

GateSpec == Init /\ [][GateNext]_vars

(***************************************************************************)
(* Claims about effects and triggers (checked under Spec and HealSpec)     *)
(***************************************************************************)
\* the sequence stamp of effect instance i
Stamp(i) == acts[i].order_of_play

\* the repeats of the last resolution: the positions of their "action" notes
ActionNotes == {k \in 1..Len(trace) : trace[k].kind = "action"}

\* the "action_end" notes after position k
EndsAfter(k) == {e \in (k + 1)..Len(trace) : trace[e].kind = "action_end"}

\* the note that ends the repeat starting at k
EndOf(k) == CHOOSE e \in EndsAfter(k) : \A f \in EndsAfter(k) : e <= f

\* the notes of the given kind about target t within the repeat starting at k
NotesOf(k, kind, t) ==
    {j \in k..EndOf(k) : trace[j].kind = kind /\ trace[j].tgt = t}

\* C1: every effect instance of every variant, targeted and game-level alike,
\* carries a sequence stamp from its construction on, and the stamps are
\* pairwise distinct and strictly increasing in creation order.
C1_EveryEffectStamped ==
    \A i \in 1..Len(acts) :
        /\ Stamp(i) > 0
        /\ \A j \in 1..Len(acts) : i < j => Stamp(i) < Stamp(j)

\* C2: every gather dispatch returns its list of (entity, effect) pairs, and
\* the list is sorted ascending by the sequence stamp of the effects.
C2_GatherSortedByStamp ==
    \A k \in 1..Len(trace) :
        trace[k].kind = "gather:ON" =>
            /\ trace[k].snap.raised = None
            /\ \A i, j \in 1..Len(trace[k].ids) :
                  i < j => Stamp(trace[k].ids[i]) <= Stamp(trace[k].ids[j])

\* the effects handed to the queue by the last resolution, in order
RECURSIVE QueuedFrom(_)
QueuedFrom(k) ==
    IF k > Len(trace) THEN <<>>
    ELSE (IF trace[k].kind = "queue" THEN trace[k].ids ELSE <<>>) \o QueuedFrom(k + 1)

\* the last resolution is that of a Death effect
DeathResolved == Len(trace) > 0 /\ trace[1].kind = "action" /\ trace[1].cls = "Death"

\* C3: when a Death effect resolves, the resolution goes through and the
\* effects produced in reaction to the death reach the queue one by one in
\* ascending sequence-stamp order.
C3_DeathReactionsInStampOrder ==
    DeathResolved =>
        /\ raised = None
        /\ \A i, j \in 1..Len(QueuedFrom(1)) :
              i < j => Stamp(QueuedFrom(1)[i]) <= Stamp(QueuedFrom(1)[j])

\* the scenario of C4: M1 (1 health) carries the single registration
\* "on its own death, draw a card", no other entity carries any
DeathDrawSetup ==
    /\ \A e \in Entities \ {"M1"} : events[e] = <<>>
    /\ Len(events["M1"]) = 1
    /\ ~events["M1"][1].once
    /\ acts[events["M1"][1].trigger].cls = "Death"
    /\ acts[events["M1"][1].trigger].args = <<SELF>>
    /\ Len(events["M1"][1].actions) = 1
    /\ acts[events["M1"][1].actions[1]].cls = "Draw"

\* C4: in that scenario Damage of amount 1 leaves M1 dead, the resolution of
\* its death gathers exactly one consequence, the draw, and once M1 is buried
\* and the queue is applied P1 holds the card that was on top of the deck.
C4_DeathDrawScenario ==
    DeathDrawSetup =>
        /\ (ActionNotes # {} /\ trace[1].cls = "Damage" /\ trace[1].ents = <<"M1">>)
              => IsDead(Cur, "M1")
        /\ (/\ DeathResolved /\ trace[1].tgt = "M1"
            /\ \A e \in Entities : damage[e] = IF e = "M1" THEN 1 ELSE 0) =>
              /\ raised = None
              /\ \E k \in 1..Len(trace) :
                    /\ trace[k].kind = "gather:ON"
                    /\ Len(trace[k].ids) = 1
                    /\ acts[trace[k].ids[1]].cls = "Draw"
        /\ (zone["M1"] = "GRAVEYARD" /\ queue = <<>>) => "K2" \in Range(hand["P1"])

\* C7: a single-fire registration fires at most once over all broadcast and
\* gather dispatches, and once it has fired it is in no registration list.
C7_SingleFire ==
    \A i \in 1..Len(fired) :
        fired[i].once =>
            /\ \A j \in 1..Len(fired) : fired[j].trigger = fired[i].trigger => j = i
            /\ \A e \in Entities : \A k \in 1..Len(events[e]) :
                  events[e][k].trigger # fired[i].trigger

\* witness of C7: the single-fire registration of M1 has fired, and the last
\* resolution broadcast another Damage of M1 that fired nothing
C7_Witness ==
    /\ raised = None
    /\ Len(fired) = 1 /\ fired[1].once /\ fired[1].entity = "M1"
    /\ \E k \in 1..Len(trace) :
          trace[k].kind = "broadcast:ON" /\ trace[k].cls = "Damage" /\ trace[k].tgt = "M1"
    /\ \A k \in 1..Len(trace) : trace[k].kind # "queue"

\* the targeted effects
TargetedClasses == {"Damage", "Draw", "Heal"}

\* C8: a targeted effect with repeat count N resolves its targets N times:
\* each repeat is applied to what the selector selects in the game as it is
\* when that repeat starts.
C8_TargetsResolvedEachRepeat ==
    /\ \A k \in ActionNotes :
          trace[k].cls \in TargetedClasses =>
              trace[k].ents =
                  EvaluateSelectors(trace[k].snap, acts[trace[k].ids[1]], trace[k].src).val
    /\ (raised = None /\ ActionNotes # {} /\ trace[1].cls \in TargetedClasses)
          => Cardinality(ActionNotes) = acts[trace[1].ids[1]].times

\* witness of C8: the second repeat was applied to another target set than
\* the first, because the first changed what the selector selects
C8_Witness ==
    /\ raised = None
    /\ \E k1, k2 \in ActionNotes :
          /\ k1 < k2
          /\ trace[k1].ids = trace[k2].ids
          /\ acts[trace[k1].ids[1]].times = 2
          /\ trace[k1].ents # trace[k2].ents
          /\ trace[k2].ents = <<>>

\* what C9 promises of the repeat starting at k for its target t
HealContract(k, t) ==
    LET pre == trace[k].snap
        post == trace[EndOf(k)].snap
        m == modifiers[Controller(trace[k].src)].healing_double + 1
        d == pre.damage[t]
        applied == Min(trace[k].amount * m, d)
    IN /\ post.damage[t] = d - applied
       /\ post.damage[t] >= 0
       /\ applied # 0 => /\ Cardinality(NotesOf(k, "broadcast:ON", t)) = 1
                         /\ \A j \in NotesOf(k, "broadcast:ON", t) :
                               trace[j].cls = "Heal" /\ trace[j].amount = applied
       /\ applied = 0 => NotesOf(k, "broadcast:ON", t) = {}
       /\ (d = 0 /\ Len(trace[k].ents) = 1) => post = pre

\* the repeats of a Heal in the last resolution
HealNotes == {k \in ActionNotes : trace[k].cls = "Heal"}

\* C9 as stated: a Heal of amount a on a target with damage d takes exactly
\* min(a * m, d) off the damage and broadcasts that amount only if nonzero,
\* whatever modifiers the controller of the source has.
C9_HealClampedAlways ==
    \A k \in HealNotes :
        /\ EndsAfter(k) # {}
        /\ \A t \in Range(trace[k].ents) : HealContract(k, t)

\* C9 (amended): the same, when the controller of the source does not have
\* the heal-as-damage modifier (outgoing_healing_adjustment).
C9_HealClamped ==
    \A k \in HealNotes :
        ~modifiers[Controller(trace[k].src)].outgoing_healing_adjustment =>
            /\ EndsAfter(k) # {}
            /\ \A t \in Range(trace[k].ents) : HealContract(k, t)

\* witness of C9: a Heal of 5 on M3 with 3 damage, no modifier: 3 is applied
C9_Witness ==
    /\ \E k \in HealNotes :
          /\ trace[k].amount = 5
          /\ trace[k].ents = <<"M3">>
          /\ trace[k].snap.damage["M3"] = 3
          /\ modifiers[Controller(trace[k].src)].healing_double = 0
          /\ ~modifiers[Controller(trace[k].src)].outgoing_healing_adjustment
          /\ \E j \in NotesOf(k, "broadcast:ON", "M3") : trace[j].amount = 3
    /\ damage["M3"] = 0

\* what C10 promises of the repeat starting at k for the player p
DrawContract(k, p) ==
    LET pre == trace[k].snap
        post == trace[EndOf(k)].snap
        n == Len(pre.deck[p])
    IN IF n = 0
       THEN /\ post.fatigue[p] = pre.fatigue[p] + 1
            /\ Cardinality(NotesOf(k, "fatigue", p)) = 1
            /\ post.deck = pre.deck /\ post.hand = pre.hand /\ post.zone = pre.zone
       ELSE /\ post.hand[p] = Append(pre.hand[p], pre.deck[p][n])
            /\ post.deck[p] = SubSeq(pre.deck[p], 1, n - 1)
            /\ post.zone[pre.deck[p][n]] = "HAND"
            /\ Cardinality(NotesOf(k, "draw", p)) = 1
            /\ post.fatigue = pre.fatigue
            /\ NotesOf(k, "fatigue", p) = {}

\* C10: a Draw for a player with an empty deck makes exactly one fatigue
\* event, moves no card and completes; a Draw for a player with a nonempty
\* deck draws the card on top of the deck and makes no fatigue event.
C10_DrawOrFatigue ==
    \A k \in ActionNotes :
        trace[k].cls = "Draw" =>
            /\ raised = None
            /\ EndsAfter(k) # {}
            /\ \A p \in Range(trace[k].ents) : DrawContract(k, p)

\* witness of C10: P2 drew from its empty deck and took fatigue, after P1
\* drew the top card of its deck
C10_Witness ==
    /\ raised = None
    /\ fatigue["P2"] = 1
    /\ hand["P1"] = <<"K2">>
    /\ \E k \in ActionNotes : trace[k].cls = "Draw" /\ trace[k].ents = <<"P2">>

(***************************************************************************)
(* Claims about the selector interpreter (checked under SelSpec)           *)
(***************************************************************************)
\* no merge marker and no merge step in the program
IsPlainProgram(prog) ==
    \A i \in 1..Len(prog) : prog[i].op \in {"enum", "IsSelf", "IsOwner", "IsTarget", "_and", "_or", "_not"}

IsInjective(s) == \A i, j \in 1..Len(s) : s[i] = s[j] => i = j

\* C5: for selectors A and B, every input and source, eval(A | B) is the
\* set union of eval(A) and eval(B), and eval(A - B) is eval(A) with every
\* member of eval(B) removed.  Stated here for operands that evaluate
\* without error, a left operand that is not a random selector and a source
\* that is in the input collection.
C5_UnionAndDifference ==
    (/\ selOut.done /\ selHist.op \in {"or", "sub"}
     /\ selOut.haerr = None /\ selOut.hberr = None
     /\ selHist.a.cls # "RandomSelector"
     /\ selOut.source \in Range(selOut.entities))
    => /\ selOut.aerr = None
       /\ selHist.op = "or" => Range(selOut.a) = Range(selOut.ha) \cup Range(selOut.hb)
       /\ selHist.op = "sub" => Range(selOut.a) = Range(selOut.ha) \ Range(selOut.hb)

\* the entities of the last input that pass the filter S of RANDOM(S)
PassInner == Filter(selA.inner, 1, selOut.entities, selOut.source, SelWorld).val

\* selA is RANDOM(S) for a plain filter S and has been evaluated
RandomEvaluated ==
    /\ selOut.done
    /\ selA.cls = "RandomSelector"
    /\ IsPlainProgram(selA.inner)

RandomContract ==
    LET k == Len(PassInner)
        n == RandomOf(selA).times
        fb == RandomOf(selA).fallback
    IN /\ selOut.aerr = None
       /\ k > 0 => /\ Len(selOut.a) = Min(n, k)
                   /\ IsInjective(selOut.a)
                   /\ Range(selOut.a) \subseteq Range(PassInner)
       /\ k = 0 => selOut.a = (IF fb # None THEN <<fb>> ELSE <<>>)

C6_WitnessFallback ==
    /\ RandomEvaluated
    /\ Len(selOut.entities) > 0
    /\ Len(PassInner) = 0
    /\ selOut.a = <<"selB">>

(***************************************************************************)
(* Claims about Play and Attack (checked under PlaySpec)                   *)
(***************************************************************************)
\* the last resolution is that of a Play effect
PlayResolved == Len(trace) > 0 /\ trace[1].kind = "action" /\ trace[1].cls = "Play"

\* the card, the target and the alternate mode of the last Play
PlayedCard == trace[1].ents[2]
PlayedTarget == trace[1].ents[3]
PlayedChoice == trace[1].ents[4]

\* the positions of the notes of the given kind in the last resolution
Notes(kind) == {k \in 1..Len(trace) : trace[k].kind = kind}

\* the Play misses the target its card takes
MissingTarget == HasTarget(PlayedCard) /\ PlayedTarget = None

\* the Play names an alternate mode its card does not have
InvalidChoice == PlayedChoice # None /\ PlayedChoice \notin ChooseCards(PlayedCard)

\* C11: a Play of a card that takes a target without a target, or with an
\* alternate mode the card does not have, aborts: the failure reaches the
\* caller, and nothing was broadcast ON or AFTER, no death processing ran and
\* the external play resolution was not invoked.
C11_InvalidPlayAborts ==
    (PlayResolved /\ (MissingTarget \/ InvalidChoice)) =>
        /\ raised = "AssertionError"
        /\ Notes("action") = {1}
        /\ Notes("broadcast:ON") = {} /\ Notes("broadcast:AFTER") = {}
        /\ Notes("process_deaths") = {}
        /\ Notes("play") = {}
        /\ Notes("action_end") = {}

\* witness of C11: K2, which takes a target, was played without one while M1
\* carries a registration for Play
C11_Witness ==
    /\ PlayResolved /\ PlayedCard = "K2" /\ MissingTarget /\ ~InvalidChoice
    /\ raised = "AssertionError"
    /\ Len(events["M1"]) > 0

\* witness of C11, second case: K2 was played on M2 in a mode it does not have
C11_WitnessChoice ==
    /\ PlayResolved /\ PlayedCard = "K2" /\ ~MissingTarget /\ InvalidChoice
    /\ raised = "AssertionError"

\* C12: whenever a Play resolution ends, however it ends, the target and the
\* alternate mode of the played card are both unset.
C12_PlayAlwaysClears ==
    PlayResolved =>
        /\ card_target[PlayedCard] = None
        /\ card_choose[PlayedCard] = None

\* the steps of the last resolution between its two observer notifications,
\* the hand-overs to the queue left out
StepNotes == SelectSeq(trace, LAMBDA n : n.kind \notin {"queue", "action", "action_end"})

StepKinds == [k \in 1..Len(StepNotes) |-> StepNotes[k].kind]

\* the payload of a Play broadcast: player, card, target, alternate mode
PlayPayload == <<Controller(PlayedCard), PlayedCard, PlayedTarget, PlayedChoice>>

\* the card carries the target and the mode of the Play at every step from
\* the ON broadcast to the AFTER broadcast, and carries neither at the end
PlayStateSetThenCleared ==
    /\ \A k \in 1..Len(StepNotes) :
          StepNotes[k].kind \in {"broadcast:ON", "play", "broadcast:AFTER"} =>
              /\ StepNotes[k].snap.target[PlayedCard] = PlayedTarget
              /\ StepNotes[k].snap.choose[PlayedCard] = PlayedChoice
    /\ card_target[PlayedCard] = None
    /\ card_choose[PlayedCard] = None

\* both broadcasts of the last Play carry its payload
PlayPayloads ==
    \A k \in Notes("broadcast:ON") \cup Notes("broadcast:AFTER") :
        trace[k].cls = "Play" /\ trace[k].ents = PlayPayload

GameLevelResolved ==
    Len(trace) > 0 /\ trace[1].kind = "action" /\ trace[1].cls \in GameActionClasses

\* the effect gave up on a violated precondition, or its external resolution
\* failed
EffectAborted == raised \in {"AssertionError", "PlayError"}

\* the resolution went from the starting notification through the effect to
\* the end notification and the death-processing pass
NotifiedInOrder ==
    /\ raised = None
    /\ Notes("action") = {1}
    /\ Notes("action_end") = {Len(trace) - 1}
    /\ trace[Len(trace)].kind = "process_deaths"

\* Attack: both flags are up when the starting notification is sent, and
\* the ON broadcast comes before the external combat resolution
AttackInOrder ==
    /\ trace[1].snap.attacking[trace[1].ents[1]]
    /\ trace[1].snap.defending[trace[1].ents[2]]
    /\ Cardinality(Notes("broadcast:ON")) = 1 /\ Cardinality(Notes("attack")) = 1
    /\ \A b \in Notes("broadcast:ON"), c \in Notes("attack") :
          /\ b < c
          /\ trace[b].cls = "Attack" /\ trace[b].ents = trace[1].ents

\* C16: the resolution of any game-level effect sends the starting
\* notification, runs the effect, sends the end notification and forces a
\* death-processing pass, in this order; for Attack the flags of attacker and
\* defender are set when the starting notification is sent and the ON
\* broadcast precedes the external combat resolution.
C16_GameLevelOrder ==
    (GameLevelResolved /\ ~EffectAborted) =>
        /\ NotifiedInOrder
        /\ trace[1].cls = "Attack" => AttackInOrder

\* the part of C16 about Attack and Play alone
C16_AttackAndPlayOrder ==
    (GameLevelResolved /\ ~EffectAborted /\ trace[1].cls \in {"Attack", "Play"}) =>
        /\ NotifiedInOrder
        /\ trace[1].cls = "Attack" => AttackInOrder

(***************************************************************************)
(* Claims about the dispatch of registrations (checked under PlaySpec)     *)
(***************************************************************************)
\* the broadcasts of the last resolution, and the phase of each
Broadcasts == Notes("broadcast:ON") \cup Notes("broadcast:AFTER")

Phase(k) == IF trace[k].kind = "broadcast:ON" THEN "ON" ELSE "AFTER"

\* the game as it was when the scan of broadcast k started
ScanStart(k) ==
    [Cur EXCEPT !.zone = trace[k].snap.zone, !.damage = trace[k].snap.damage,
                !.target = trace[k].snap.target, !.events = trace[k].snap.events]

\* the registrations entity e carried when the scan of broadcast k started
RegistrationsAt(k, e) == trace[k].snap.events[e]

\* the hand-overs to the queue made by the scan of broadcast k for
\* registration r of entity e: one per firing of r
HandOvers(k, e, r) ==
    {j \in (k + 1)..Len(trace) :
        /\ \A m \in (k + 1)..j : trace[m].kind = "queue"
        /\ trace[j].src = e /\ trace[j].ids = r.actions}

\* every declared argument of the pattern of r, evaluated for e on the
\* payload item at the same position alone, selects that item
PatternSelects(k, e, r) ==
    \A a \in 1..Min(Len(acts[r.trigger].args), Len(trace[k].ents)) :
        LET res == Eval(acts[r.trigger].args[a], <<trace[k].ents[a]>>, e,
                        WorldOf(ScanStart(k)), 0)
        IN res.err = None /\ Len(res.val) > 0 /\ res.val[1] = trace[k].ents[a]

\* registration r of entity e matches the event of broadcast k as the scan
\* starts
Qualifies(k, e, r) ==
    /\ ~IgnoreEvents(ScanStart(k), e)
    /\ r.zone = trace[k].snap.zone[e]
    /\ r.at = Phase(k)
    /\ acts[r.trigger].cls = trace[k].cls
    /\ PatternSelects(k, e, r)

\* C13: in one scan every registration that matches the event when the scan
\* starts is fired exactly once; none is skipped because a single-fire
\* registration before it in the list of its entity fired and was removed.
C13_NoRegistrationSkipped ==
    \A k \in Broadcasts : \A e \in Entities :
        \A i \in 1..Len(RegistrationsAt(k, e)) :
            Qualifies(k, e, RegistrationsAt(k, e)[i]) =>
                Cardinality(HandOvers(k, e, RegistrationsAt(k, e)[i])) = 1

\* C14: the follow-ups of a registration are dispatched by a scan if and only
\* if its entity does not ignore events, its zone is the zone of the entity,
\* its phase is the phase dispatched, its pattern is of the type of the
\* raising effect and every declared pattern argument selects the payload
\* item at its position.
C14_DispatchedIffQualified ==
    \A k \in Broadcasts : \A e \in Entities :
        \A i \in 1..Len(RegistrationsAt(k, e)) :
            HandOvers(k, e, RegistrationsAt(k, e)[i]) # {}
                <=> Qualifies(k, e, RegistrationsAt(k, e)[i])

\* the "only if" half of C14
C14_DispatchedOnlyIfQualified ==
    \A k \in Broadcasts : \A e \in Entities :
        \A i \in 1..Len(RegistrationsAt(k, e)) :
            HandOvers(k, e, RegistrationsAt(k, e)[i]) # {}
                => Qualifies(k, e, RegistrationsAt(k, e)[i])

\* registrations that do not qualify for one reason each were left alone by
\* a Play broadcast ON that fired the registration of M1
C14_OnlyIfWitness ==
    /\ PlayResolved /\ raised = None
    /\ \E k \in Notes("broadcast:ON") :
          /\ \E i \in 1..Len(RegistrationsAt(k, "M1")) :
                HandOvers(k, "M1", RegistrationsAt(k, "M1")[i]) # {}
          /\ \E e \in {"M2", "M3"} : \E i \in 1..Len(RegistrationsAt(k, e)) :
                /\ HandOvers(k, e, RegistrationsAt(k, e)[i]) = {}
                /\ acts[RegistrationsAt(k, e)[i].trigger].cls = "Play"

(***************************************************************************)
(* Claims about Damage (checked under DamageSpec)                          *)
(***************************************************************************)
\* the repeats of a Damage in the last resolution
DamageNotes == {k \in ActionNotes : trace[k].cls = "Damage"}

\* what the intake rule of t returned in the repeat starting at k: the
\* damage t took
Applied(k, t) == trace[EndOf(k)].snap.damage[t] - trace[k].snap.damage[t]

\* what C17 promises of the repeat starting at k for its target t
DamageContract(k, t) ==
    /\ Applied(k, t) # 0 <=> NotesOf(k, "broadcast:ON", t) # {}
    /\ Cardinality(NotesOf(k, "broadcast:ON", t)) <= 1
    /\ \A j \in NotesOf(k, "broadcast:ON", t) :
          /\ trace[j].cls = "Damage"
          /\ trace[j].ents = <<t, Applied(k, t), trace[k].src>>

\* C17: a Damage applied to a target broadcasts ON if and only if the amount
\* the intake rule of the target returned is not zero, and the payload is
\* the target, that amount (not the amount of the effect) and the source.
C17_DamageBroadcastsApplied ==
    \A k \in DamageNotes :
        /\ EndsAfter(k) # {}
        /\ \A t \in Range(trace[k].ents) : DamageContract(k, t)

\* witness of C17: a Damage of 3 on the hero of P1 with 1 armor broadcast 2
C17_Witness ==
    \E k \in DamageNotes :
        /\ trace[k].amount = 3 /\ trace[k].ents = <<"P1">>
        /\ trace[k].snap.armor["P1"] = 1
        /\ \E j \in NotesOf(k, "broadcast:ON", "P1") : trace[j].amount = 2

\* witness of C17, second case: the armor took all of the Damage and nothing
\* was broadcast
C17_WitnessAbsorbed ==
    \E k \in DamageNotes :
        /\ trace[k].amount = 1 /\ trace[k].ents = <<"P1">>
        /\ trace[k].snap.armor["P1"] = 1
        /\ NotesOf(k, "broadcast:ON", "P1") = {}
        /\ armor["P1"] = 0 /\ damage["P1"] = 0

(***************************************************************************)
(* Claims about merge segments and empty inputs (checked under SelSpec)    *)
(***************************************************************************)
\* the program of the selector holds a merge segment
HasMergeSegment(sel) == ~IsPlainProgram(sel.program)

\* the last evaluation is that of  a | b,  a + b  or  a - b  built by
\* joining the programs of a and b, at least one of them holding a merge
\* segment, on an input that holds the source; a and b evaluate on their
\* own, and neither is OWNER or TARGET, which evaluate without their program
MergeOperandsEvaluated ==
    /\ selOut.done /\ selHist.op \in {"or", "add", "sub"}
    /\ ~(selHist.op = "or" /\ selHist.a.cls = "RandomSelector")
    /\ {selHist.a.cls, selHist.b.cls} \cap {"OwnerSelector", "TargetSelector"} = {}
    /\ HasMergeSegment(selHist.a) \/ HasMergeSegment(selHist.b)
    /\ selOut.haerr = None /\ selOut.hberr = None
    /\ selOut.source \in Range(selOut.entities)

\* the output of the merge segment was combined with the other operand as
\* the combinator says: union, intersection, removal
CombinedAsStated ==
    /\ selOut.aerr = None
    /\ selHist.op = "or" => Range(selOut.a) = Range(selOut.ha) \cup Range(selOut.hb)
    /\ selHist.op = "add" => Range(selOut.a) = Range(selOut.ha) \cap Range(selOut.hb)
    /\ selHist.op = "sub" => Range(selOut.a) = Range(selOut.ha) \ Range(selOut.hb)

\* C18: a merge segment works on the original input and its output is
\* combined into the result by the combinators after its unmerge marker
\* (or: union, and: intersection, not and: removal), wherever the segment
\* stands in the program, the left operand of | + - included.
C18_MergeSegmentAnywhere == MergeOperandsEvaluated => CombinedAsStated

\* the part of C18 for programs whose left operand holds no merge segment,
\* or whose operands both end in one
C18_MergeSegmentOnTheRight ==
    (MergeOperandsEvaluated
        /\ (~HasMergeSegment(selHist.a) \/ HasMergeSegment(selHist.b)))
    => CombinedAsStated

\* a merge segment on the right of a minus was evaluated on the original
\* input and removed from the result
C18_RightWitness ==
    /\ MergeOperandsEvaluated /\ selHist.op = "sub"
    /\ ~HasMergeSegment(selHist.a) /\ HasMergeSegment(selHist.b)
    /\ selOut.hb # <<>> /\ Range(selOut.a) # Range(selOut.ha)

\* the opcodes of a program that test one entity
Predicates(prog) ==
    {j \in 1..Len(prog) : prog[j].op \in {"enum", "IsSelf", "IsOwner", "IsTarget"}}

\* every entity of the last input is filtered out by the selector evaluated:
\* its program negates nothing and each of its predicates rejects each entity
FilteredOut ==
    /\ selOut.entities # <<>>
    /\ \A j \in 1..Len(selA.program) : selA.program[j].op # "_not"
    /\ \A i \in 1..Len(selOut.entities) : \A j \in Predicates(selA.program) :
          ~OpTest(selA.program[j], selOut.entities[i], selOut.source, SelWorld)

\* C19: for every selector, SELF, OWNER, TARGET, adjacency and random
\* selectors included, the evaluation over an empty input and the evaluation
\* over an input whose entities are all filtered out return the empty result
\* and raise nothing.
C19_EmptyInEmptyOut ==
    (selOut.done /\ (selOut.entities = <<>> \/ FilteredOut)) =>
        /\ selOut.aerr = None
        /\ selOut.a = <<>>

\* the part of C19 about the empty input, for the selectors that evaluate
\* through Selector.eval
C19_EmptyInputOfSelectorEval ==
    (/\ selOut.done /\ selOut.entities = <<>>
     /\ selA.cls \notin {"SelfSelector", "OwnerSelector", "TargetSelector"}) =>
        /\ selOut.aerr = None
        /\ selOut.a = <<>>

(***************************************************************************)
(* Claims about the lazy gates (checked under GateSpec)                    *)
(***************************************************************************)
\* the last resolution is that of a gate
GateResolved == Len(trace) > 0 /\ trace[1].kind = "evaluate"

\* the condition of the gate in the game as it was when the resolution
\* started: Dead holds if every entity selected is dead, Find if at least
\* count entities are selected
ConditionHeld ==
    IF gate.cls = "Dead"
    THEN \A e \in Range(trace[1].ents) : trace[1].snap.damage[e] >= Health(e)
    ELSE Len(trace[1].ents) >= gate.count

\* the branch the condition selects
TakenBranch == IF ConditionHeld THEN gate._if ELSE gate._else

\* the effects resolved by the last resolution, in order
ResolvedNotes == SelectSeq(trace, LAMBDA n : n.kind = "action")

ResolvedEffects == [k \in 1..Len(ResolvedNotes) |-> ResolvedNotes[k].ids[1]]

\* the condition was evaluated once, and the effects of the branch it
\* selects were resolved, each once and in order, and no other effect
OneBranchResolved ==
    /\ raised = None
    /\ Notes("evaluate") = {1}
    /\ ResolvedEffects = TakenBranch.actions

\* C20: resolving a gate evaluates its condition once, in the game as it is
\* at that time, and resolves every effect of exactly one branch, each once:
\* the if-branch if the condition holds, the else-branch if not, nothing if
\* that branch is not set; whether a branch is one effect or a list.
C20_ExactlyOneBranch == GateResolved => OneBranchResolved

\* the part of C20 for a taken branch that is not a list bound to the
\* else-branch
C20_IfBranchOrSingleEffect ==
    (GateResolved /\ (ConditionHeld \/ gate._else.single \/ ~gate._else.set))
        => OneBranchResolved

\* a list of two effects bound to the if-branch was resolved, the first of
\* which changed what the selector of the gate selects
C20_IfListWitness ==
    /\ GateResolved /\ ConditionHeld /\ raised = None
    /\ ~gate._if.single /\ Len(ResolvedEffects) = 2
    /\ gate._else.set
    /\ trace[1].snap.damage # damage


(***************************************************************************)
(* Claims about Deathrattle (checked under DeathrattleSpec)                *)
(***************************************************************************)
RECURSIVE QueuedWithin(_, _)
\* the effects handed to the queue from note j up to note e, in order
QueuedWithin(j, e) ==
    IF j > e THEN <<>>
    ELSE (IF trace[j].kind = "queue" THEN trace[j].ids ELSE <<>>) \o QueuedWithin(j + 1, e)

RECURSIVE DeathrattlesFrom(_, _)
\* what the deathrattles of target t, from deathrattle d on, are to hand to
\* the queue: each effect list once, or twice when the controller of t has
\* the modifier
DeathrattlesFrom(t, d) ==
    IF d > Len(deathrattles[t]) THEN <<>>
    ELSE deathrattles[t][d]
            \o (IF extra_deathrattles[Controller(t)] THEN deathrattles[t][d] ELSE <<>>)
            \o DeathrattlesFrom(t, d + 1)

RECURSIVE DeathrattlesOf(_, _)
\* the same for the targets ts, from target n on
DeathrattlesOf(ts, n) ==
    IF n > Len(ts) THEN <<>>
    ELSE DeathrattlesFrom(ts[n], 1) \o DeathrattlesOf(ts, n + 1)

\* the last resolution is that of a Deathrattle effect and went through
DeathrattleResolved ==
    /\ raised = None
    /\ Len(trace) > 0 /\ trace[1].kind = "action" /\ trace[1].cls = "Deathrattle"

\* C21: resolving Deathrattle on a target hands each deathrattle effect of
\* the target to the queue exactly once, in the order the deathrattles are
\* listed, when the controller of the target has no extra_deathrattles
\* modifier, and exactly twice each when it has; a target without
\* deathrattles queues nothing.
C21_DeathrattlesQueued ==
    DeathrattleResolved =>
        \A k \in ActionNotes :
            /\ QueuedWithin(k, EndOf(k)) = DeathrattlesOf(trace[k].ents, 1)
            /\ \A j \in k..EndOf(k) :
                  trace[j].kind = "queue" => trace[j].src \in Range(trace[k].ents)

\* witness of C21: M2 carries two deathrattles and its controller has the
\* modifier, M3 carries none; Deathrattle resolved on all minions queued the
\* effects of M2 twice each
C21_Witness ==
    /\ DeathrattleResolved
    /\ trace[1].ents = <<"M1", "M2", "M3">>
    /\ Len(deathrattles["M2"]) = 2 /\ Len(deathrattles["M2"][2]) = 2
    /\ extra_deathrattles["P1"]
    /\ Len(QueuedWithin(1, EndOf(1))) = 2 * (Len(deathrattles["M2"][1]) + 2)

\* witness of C21 without the modifier: the deathrattles of M1 and M2 were
\* queued once each, M1's first
C21_WitnessOnce ==
    /\ DeathrattleResolved
    /\ trace[1].ents = <<"M1", "M2", "M3">>
    /\ Len(deathrattles["M1"]) = 1 /\ Len(deathrattles["M2"]) = 1
    /\ ~extra_deathrattles["P1"]
    /\ QueuedWithin(1, EndOf(1)) = deathrattles["M1"][1] \o deathrattles["M2"][1]

(***************************************************************************)
(* Claims about the card argument of Give, Summon, Shuffle (CardSpec)      *)
(***************************************************************************)
\* the effects with a card argument
CardClasses == {"Give", "Summon", "Shuffle"}

\* the repeats of the last resolution that resolve a card argument
CardRepeats == {k \in ActionNotes : trace[k].cls \in CardClasses}

\* the card argument of the effect of the repeat starting at k
CardArg(k) == acts[trace[k].ids[1]].args[2]

\* the notes of the cards created within the repeat starting at k
CardNotes(k) == {j \in k..EndOf(k) : trace[j].kind = "card"}

RECURSIVE CreatedWithin(_, _)
\* the ids of the cards created from note j up to note e, in order
CreatedWithin(j, e) ==
    IF j > e THEN <<>>
    ELSE (IF trace[j].kind = "card" THEN <<trace[j].cls>> ELSE <<>>)
            \o CreatedWithin(j + 1, e)

RECURSIVE Repeated(_, _)
\* the sequence ids, n times over
Repeated(ids, n) == IF n = 0 THEN <<>> ELSE ids \o Repeated(ids, n - 1)

\* what the selector of a copy selects in the game of the note at k
CopiedAt(k) ==
    Eval(CardArg(k).selector, GameEntities, trace[k].src, WorldOf(trace[k].snap), 0).val

\* a literal id and a copy are resolved for each target of the repeat
\* starting at k, against the game as it is then; a generator makes one
\* pick for each target
ResolvedPerTarget(k) ==
    /\ \A j \in CardNotes(k) : trace[j].ids = <<Len(trace[j].snap.cards) + 1>>
    /\ CardArg(k).kind = "id" =>
          CreatedWithin(k, EndOf(k)) = Repeated(<<CardArg(k).id>>, Len(trace[k].ents))
    /\ CardArg(k).kind = "copy" =>
          CreatedWithin(k, EndOf(k)) = Repeated(CopiedAt(k), Len(trace[k].ents))
    /\ CardArg(k).kind = "generator" =>
          Len(CreatedWithin(k, EndOf(k))) = Len(trace[k].ents)

\* C22: the card argument of Summon, Give and Shuffle is resolved when the
\* effect executes, once for each target of each repeat: a literal id is
\* looked up then, a copy evaluates its selector against the game of that
\* moment, and a random-content generator picks from the content pool as it
\* is filtered at that moment.
C22_ResolvedAtExecution ==
    raised = None =>
        \A k \in CardRepeats :
            /\ ResolvedPerTarget(k)
            /\ CardArg(k).kind = "generator" =>
                  \A j \in CardNotes(k) : trace[j].cls \in Range(trace[j].snap.pool)

\* C22, for the pool the generator filtered at its first pick: the card
\* argument is resolved once for each target of each repeat, against the
\* game of that moment, and every pick of the generator is a member of the
\* pool as it was when the generator picked first
C22_ResolvedPerTargetAndRepeat ==
    raised = None =>
        \A k \in CardRepeats :
            /\ ResolvedPerTarget(k)
            /\ CardArg(k).kind = "generator" =>
                  /\ generator.filtered
                  /\ \A j \in CardNotes(k) : trace[j].cls \in Range(generator.cards)

\* C22, construction: constructing an effect creates no card, filters no
\* pool and draws nothing from the random source
C22_NothingResolvedAtConstruction ==
    [][Len(acts') > Len(acts) =>
          (cards' = cards /\ generator' = generator /\ rnd' = rnd)]_vars

\* two repeats of one Give of a generated card gave different cards
C22_GeneratorWitness ==
    /\ raised = None
    /\ \E k1, k2 \in CardRepeats :
          /\ k1 < k2 /\ trace[k1].ids = trace[k2].ids
          /\ CardArg(k1).kind = "generator"
          /\ CreatedWithin(k1, EndOf(k1)) # CreatedWithin(k2, EndOf(k2))

\* a copy was resolved to a card that could not have been copied when the
\* effect was constructed: M2 was damaged after that
C22_CopyWitness ==
    /\ raised = None
    /\ \E k \in CardRepeats :
          /\ CardArg(k).kind = "copy"
          /\ CreatedWithin(k, EndOf(k)) = <<"M2">>
          /\ acts[1].cls = "Summon" /\ trace[k].ids = <<1>>

\* a literal id was resolved once for each of two targets
C22_LiteralWitness ==
    /\ raised = None
    /\ \E k \in CardRepeats :
          /\ CardArg(k).kind = "id"
          /\ trace[k].ents = <<"P1", "P2">>
          /\ Len(cards) >= 2
          /\ cards[Len(cards)].controller = "P2" /\ cards[Len(cards) - 1].controller = "P1"

(***************************************************************************)
(* Claims about Summon, Give and Shuffle (checked under SummonSpec)        *)
(***************************************************************************)
\* the zone changes of the last resolution, when it is one of Summon, Give
\* or Shuffle that went through
ZoneChanges ==
    IF raised = None /\ Len(trace) > 0 /\ trace[1].cls \in CardClasses
    THEN {j \in 1..Len(trace) : trace[j].kind = "zone"}
    ELSE {}

\* the zone each effect moves its cards to
ZoneOf(cls) == IF cls = "Summon" THEN "PLAY" ELSE IF cls = "Give" THEN "HAND" ELSE "DECK"

\* the card of zone change j has the target player as controller when the
\* zone changes, and it goes to the zone of the effect
ControllerThenZone(j) ==
    /\ trace[j].snap.cards[trace[j].ids[1]].controller = trace[j].tgt
    /\ trace[j].snap.cards[trace[j].ids[1]].zone = "INVALID"
    /\ trace[j].cls = ZoneOf(trace[1].cls)
    /\ cards[trace[j].ids[1]].zone = ZoneOf(trace[1].cls)

\* note i is the broadcast of phase at for the card and target of zone change
\* j, observed with the target as controller of the card
BroadcastFor(i, j, at) ==
    /\ trace[i].kind = "broadcast:" \o at
    /\ trace[i].cls = trace[1].cls
    /\ trace[i].ents = <<trace[j].tgt, trace[j].ids[1]>>
    /\ trace[i].snap.cards[trace[j].ids[1]].controller = trace[j].tgt

\* ON is broadcast before zone change j and AFTER after it, each once
BroadcastsAround(j) ==
    /\ \E i \in 1..(j - 1) : BroadcastFor(i, j, "ON")
    /\ \E l \in (j + 1)..Len(trace) : BroadcastFor(l, j, "AFTER")
    /\ \A i \in 1..Len(trace) :
          /\ BroadcastFor(i, j, "ON") =>
                (i < j /\ \A i2 \in 1..Len(trace) : BroadcastFor(i2, j, "ON") => i2 = i)
          /\ BroadcastFor(i, j, "AFTER") =>
                (i > j /\ \A i2 \in 1..Len(trace) : BroadcastFor(i2, j, "AFTER") => i2 = i)

\* C23: each of Summon, Give and Shuffle, for every card it resolves, first
\* makes the target player the controller of the card, then broadcasts ON,
\* then changes the zone (to play, hand or deck), then broadcasts AFTER; the
\* controller of the card is the target player when the broadcasts are observed.
C23_BroadcastsAroundZoneChange ==
    /\ \A j \in ZoneChanges : ControllerThenZone(j) /\ BroadcastsAround(j)
    /\ \A i \in 1..Len(trace) :
          (trace[i].kind \in {"broadcast:ON", "broadcast:AFTER"} /\ ZoneChanges # {}) =>
              \E j \in ZoneChanges : trace[i].ents = <<trace[j].tgt, trace[j].ids[1]>>

\* C23, for what each effect does: all three make the target player the
\* controller before the zone changes, and Summon broadcasts ON before the
\* zone change and AFTER after it
C23_SummonBroadcastsAround ==
    \A j \in ZoneChanges :
        /\ ControllerThenZone(j)
        /\ trace[1].cls = "Summon" => BroadcastsAround(j)

\* a Summon of two cards for a player, with one registration fired in each
\* phase for each card
C23_SummonWitness ==
    /\ Cardinality(ZoneChanges) = 3
    /\ trace[1].cls = "Summon"
    /\ Len(fired) = 6
    /\ \E i, l \in 1..Len(fired) : i < l /\ fired[i].entity = "M1" /\ fired[l].entity = "M2"

\* a Give went through with a registration on Give in place, and nothing fired
C23_GiveWitness ==
    /\ ZoneChanges # {}
    /\ trace[1].cls = "Give"
    /\ \E k \in 1..Len(events["M1"]) : acts[events["M1"][k].trigger].cls = "Give"
    /\ fired = <<>>

(***************************************************************************)
(* Claims about multiplied random selectors (checked under SelSpec)        *)
(***************************************************************************)
\* the last operation multiplied a random selector
Multiplied == selHist.op = "mul"

\* the product asks for the sample size of the original times the factor,
\* over the filter of the original
MulScales ==
    /\ selA.cls = "RandomSelector"
    /\ selA.inner = selHist.a.inner
    /\ RandomOf(selA).times = RandomOf(selHist.a).times * selHist.n
    /\ selA.program = <<OpMergeFilter>> \o selHist.a.inner
                          \o <<OpMerge, RandomOf(selA), OpUnmerge>>

\* the product, evaluated on a nonempty input, returns one sample without
\* repetition of the entities that pass the filter
MulSamplesOnce ==
    (RandomEvaluated /\ Len(selOut.entities) > 0) =>
        /\ selOut.aerr = None
        /\ Len(PassInner) > 0 =>
              /\ Len(selOut.a) = Min(RandomOf(selA).times, Len(PassInner))
              /\ IsInjective(selOut.a)
              /\ Range(selOut.a) \subseteq Range(PassInner)

\* C24: multiplying a random selector scales its sample size
\* multiplicatively, (RANDOM(S) * m) * n asks for m * n samples in one
\* sampling pass over one evaluation of the filter of S with no entity
\* returned twice, the product keeps every other configured property of the
\* original, its fallback included, and the original is left as it was.
C24_MulKeepsTheRest ==
    Multiplied =>
        /\ MulScales
        /\ MulSamplesOnce
        /\ RandomOf(selA).fallback = RandomOf(selHist.a).fallback

\* C24, without the fallback: the sample size is scaled multiplicatively
\* and the product samples once over the filter of the original
C24_MulScalesSample == Multiplied => (MulScales /\ MulSamplesOnce)

\* (RANDOM(S) * 2) * 2 evaluated where three entities pass S: three of them
\* are returned, while RANDOM(S) * 2 returns two
C24_ScalesWitness ==
    /\ Multiplied /\ RandomEvaluated
    /\ RandomOf(selHist.a).times = 2 /\ RandomOf(selA).times = 4
    /\ Len(PassInner) = 3
    /\ Len(selOut.a) = 3 /\ Len(selOut.ha) = 2

\* a random selector with a fallback was multiplied and evaluated where
\* nothing passes its filter: the original returns its fallback
C24_FallbackWitness ==
    /\ Multiplied /\ RandomEvaluated
    /\ RandomOf(selHist.a).fallback # None
    /\ Len(selOut.entities) > 0 /\ Len(PassInner) = 0
    /\ selOut.ha = <<RandomOf(selHist.a).fallback>>
    /\ selOut.a = <<>>

(***************************************************************************)
(* Claims about the reactions to a death (checked under Spec)              *)
(***************************************************************************)
\* the ON broadcast of the Death effect the last resolution resolved
DeathBroadcasts == {k \in Broadcasts : trace[k].cls = "Death" /\ DeathResolved}

\* the hand-overs to the queue, anywhere in the last resolution, of the
\* follow-ups of registration r of entity e
QueuedFor(e, r) ==
    {j \in 1..Len(trace) :
        trace[j].kind = "queue" /\ trace[j].src = e /\ trace[j].ids = r.actions}

\* the follow-ups of registration r of entity e were collected by the
\* gather of the last resolution
GatheredFor(e, r) ==
    \E j \in 1..Len(trace) :
        /\ trace[j].kind = "gather:ON"
        /\ \E n \in 1..Len(trace[j].ids) :
              trace[j].ids[n] \in Range(r.actions) /\ trace[j].ents[n] = e

\* C25: in one Death resolution the follow-ups of each registration that
\* matches the death are handed to the queue exactly once, the resolution
\* going through: a registration that is not single-fire is not queued by
\* the ON broadcast and again with the gathered consequences.
C25_ReactionsQueuedOnce ==
    DeathResolved =>
        /\ raised = None
        /\ \A k \in DeathBroadcasts : \A e \in Entities :
              \A i \in 1..Len(RegistrationsAt(k, e)) :
                  Qualifies(k, e, RegistrationsAt(k, e)[i]) =>
                      Cardinality(QueuedFor(e, RegistrationsAt(k, e)[i])) = 1

\* a Death resolution in which the follow-up of a registration that is not
\* single-fire was queued by the ON broadcast and collected again by gather
C25_DispatchedTwice ==
    \E k \in DeathBroadcasts : \E e \in Entities :
        \E i \in 1..Len(RegistrationsAt(k, e)) :
            /\ ~RegistrationsAt(k, e)[i].once
            /\ Cardinality(QueuedFor(e, RegistrationsAt(k, e)[i])) = 1
            /\ GatheredFor(e, RegistrationsAt(k, e)[i])

\* a Death resolution in which a registration that matches the death was
\* handed to the queue by nobody
C25_NeverQueued ==
    \E k \in DeathBroadcasts : \E e \in Entities :
        \E i \in 1..Len(RegistrationsAt(k, e)) :
            /\ Qualifies(k, e, RegistrationsAt(k, e)[i])
            /\ QueuedFor(e, RegistrationsAt(k, e)[i]) = {}

(***************************************************************************)
(* Claims about the targets of one repeat (checked under TargetSpec)       *)
(***************************************************************************)
\* the repeats of the last resolution, when it is a Damage that went through
DamageRepeats ==
    IF raised = None THEN {k \in ActionNotes : trace[k].cls = "Damage"} ELSE {}

\* the notes of the Damage of one target within the repeat starting at k
Hits(k) == {j \in k..EndOf(k) : trace[j].kind = "broadcast:ON" /\ trace[j].cls = "Damage"}

RECURSIVE HitWithin(_, _)
\* the entities damaged from note j up to note e, in order
HitWithin(j, e) ==
    IF j > e THEN <<>>
    ELSE (IF trace[j].kind = "broadcast:ON" /\ trace[j].cls = "Damage"
          THEN <<trace[j].tgt>> ELSE <<>>) \o HitWithin(j + 1, e)

\* what the selector of the effect of repeat k selects in the game of note j
SelectedAt(k, j) ==
    EvaluateSelectors(trace[j].snap, acts[trace[k].ids[1]], trace[k].src).val

\* the number of times entity e is in the list ts
Occurrences(ts, e) == Cardinality({n \in 1..Len(ts) : ts[n] = e})

\* C26: within one repeat of a targeted effect the target set is resolved
\* once, before the first target is processed, and the effect is applied
\* exactly once to each entity of that set in list order, whatever the
\* selector would select while the repeat runs.
C26_TargetsFixedForTheRepeat ==
    \A k \in DamageRepeats :
        /\ trace[k].ents = SelectedAt(k, k)
        /\ HitWithin(k, EndOf(k)) = trace[k].ents
        /\ \A e \in Entities :
              trace[EndOf(k)].snap.damage[e] =
                  trace[k].snap.damage[e] + Occurrences(trace[k].ents, e)

\* witness of C26: the second target of a repeat was damaged although,
\* after the first had been, the selector no longer selected it
C26_Witness ==
    \E k \in DamageRepeats : \E j1, j2 \in Hits(k) :
        /\ j1 < j2
        /\ trace[k].ents = <<trace[j1].tgt, trace[j2].tgt>>
        /\ trace[j2].tgt \notin Range(SelectedAt(k, j1))

\* witness of C26: an entity the selector selects when the repeat ends, and
\* did not select when it started, was not damaged in the repeat
C26_WitnessLate ==
    \E k \in DamageRepeats : \E e \in Entities :
        /\ trace[k].ents # <<>>
        /\ e \in Range(SelectedAt(k, EndOf(k)))
        /\ e \notin Range(trace[k].ents)
        /\ trace[EndOf(k)].snap.damage[e] = trace[k].snap.damage[e]

====
